---- MODULE Spec2Model ----
(***************************************************************************)
(* Model of the Sudoku engine of TerminalDZ/sudoku-lib:                    *)
(*   sudoku_lib/solver.py  SudokuSolver  (cache + plain backtracking)      *)
(*   sudoku_solver.py      SudokuSolver  (cache + reducer + backtracking)  *)
(*   sudoku_lib/game.py    SudokuGame    (generator)                       *)
(*   sudoku.py             SudokuGame    (generator)                       *)
(* A grid is a function [0..8 -> [0..8 -> Int]], 0 meaning empty.  The      *)
(* recursive searches of the code are run with an explicit call stack:     *)
(* one step of the model is one placement or one undo of the search.       *)
(***************************************************************************)
EXTENDS Integers, Sequences, FiniteSets, TLC

\* ------------------------------------------------------------------------
\* Program constants
\* ------------------------------------------------------------------------
N == 9
BoxN == 3
Idx == 0..(N - 1)
Digits == 1..N
Cells == Idx \X Idx

\* ------------------------------------------------------------------------
\* Bounds of the model
\* ------------------------------------------------------------------------
MaxHoles == 5
MaxPokes == 3

\* ------------------------------------------------------------------------
\* Grids
\* ------------------------------------------------------------------------
ToGrid(rows) == [i \in Idx |-> [j \in Idx |-> rows[i + 1][j + 1]]]

EmptyGrid == [i \in Idx |-> [j \in Idx |-> 0]]

\* The solved grid of tests/test_api.py; the bounded inputs are cut from it.
ValidSolution ==
    ToGrid(<< <<5,3,4,6,7,8,9,1,2>>, <<6,7,2,1,9,5,3,4,8>>, <<1,9,8,3,4,2,5,6,7>>,
              <<8,5,9,7,6,1,4,2,3>>, <<4,2,6,8,5,3,7,9,1>>, <<7,1,3,9,2,4,8,5,6>>,
              <<9,6,1,5,3,7,2,8,4>>, <<2,8,7,4,1,9,6,3,5>>, <<3,4,5,2,8,6,1,7,9>> >>)

\* The puzzle of tests/test_api.py test_solve_puzzle.
ClassicPuzzle ==
    ToGrid(<< <<5,3,0,0,7,0,0,0,0>>, <<6,0,0,1,9,5,0,0,0>>, <<0,9,8,0,0,0,0,6,0>>,
              <<8,0,0,0,6,0,0,0,3>>, <<4,0,0,8,0,3,0,0,1>>, <<7,0,0,0,2,0,0,0,6>>,
              <<0,6,0,0,0,0,2,8,0>>, <<0,0,0,4,1,9,0,0,5>>, <<0,0,0,0,8,0,0,7,9>> >>)

\* Row-major rank of a cell, and the cell of a rank.
Rank(cell) == cell[1] * N + cell[2]
CellOf(k) == <<k \div N, k % N>>

SetCell(g, row, col, v) == [g EXCEPT ![row][col] = v]

\* The puzzle of tests/test_solver.py test_solve_with_initial_values.
InitialValues == SetCell(SetCell(SetCell(EmptyGrid, 0, 0, 5), 0, 1, 3), 1, 0, 6)

RowVals(g, row) == {g[row][j] : j \in Idx}
ColVals(g, col) == {g[i][col] : i \in Idx}
BoxCells(row, col) ==
    LET box_row == BoxN * (row \div BoxN)
        box_col == BoxN * (col \div BoxN)
    IN (box_row..(box_row + BoxN - 1)) \X (box_col..(box_col + BoxN - 1))
BoxVals(g, row, col) == {g[c[1]][c[2]] : c \in BoxCells(row, col)}

EmptyCells(g) == {c \in Cells : g[c[1]][c[2]] = 0}

\* np.any(grid == 0)
AnyZero(g) == EmptyCells(g) # {}

\* ------------------------------------------------------------------------
\* Bounded inputs: the solved grid with some cells of HolePool blanked and
\* at most one cell overwritten by an entry of PokePool.
\* ------------------------------------------------------------------------
HolePool == << <<2,4>>, <<2,5>>, <<5,4>>, <<5,5>>, <<2,0>>, <<0,2>>, <<8,8>> >>
PokePool == << <<2,4,2>>, <<8,8,1>>, <<5,4,4>>, <<2,5,4>>, <<0,0,3>> >>

HoleSets == SUBSET {HolePool[k] : k \in 1..MaxHoles}
Pokes == {<<>>} \cup {PokePool[k] : k \in 1..MaxPokes}

Blank(g, holes) == [i \in Idx |-> [j \in Idx |-> IF <<i, j>> \in holes THEN 0 ELSE g[i][j]]]
Poke(g, p) == IF p = <<>> THEN g ELSE SetCell(g, p[1], p[2], p[3])

\* A grid on which the reducer of sudoku_solver.py finds no naked single and
\* reaches its hidden-single pass.
HiddenSingleGrid == Poke(Blank(ValidSolution, {<<3,5>>, <<4,5>>, <<4,8>>}), <<3,8,4>>)

Inputs == {Poke(Blank(ValidSolution, h), p) : h \in HoleSets, p \in Pokes} \cup {HiddenSingleGrid}

\* Inputs of the read-only calls: fewer holes and overwritten cells, and
\* grids in which one digit is replaced throughout by a value outside 1..9.
MaxCheckHoles == 2
MaxCheckPokes == 2
RelabelPool == << <<9, 10>> >>
Relabels == {<<>>} \cup {RelabelPool[k] : k \in 1..Len(RelabelPool)}
Relabel(g, p) ==
    IF p = <<>> THEN g
    ELSE [i \in Idx |-> [j \in Idx |-> IF g[i][j] = p[1] THEN p[2] ELSE g[i][j]]]
CheckInputs ==
    {Relabel(Poke(Blank(ValidSolution, h), p), q) :
        h \in SUBSET {HolePool[k] : k \in 1..MaxCheckHoles},
        p \in {<<>>} \cup {PokePool[k] : k \in 1..MaxCheckPokes},
        q \in Relabels}

\* The cells the read-only calls are made on.
MaxQueryCells == 4
QueryCellPool == << <<2,4>>, <<8,8>>, <<2,3>>, <<2,5>>, <<0,0>>, <<5,4>> >>
QueryCells == {QueryCellPool[k] : k \in 1..MaxQueryCells}

\* ------------------------------------------------------------------------
\* Conversions between a grid and its stored forms
\* ------------------------------------------------------------------------
\* ','.join(map(str, grid.flatten())): the cell values in row-major order.
grid_to_key(g) == [k \in 1..(N * N) |-> g[(k - 1) \div N][(k - 1) % N]]

\* ndarray.tolist(): a list of N lists.
tolist(g) == [i \in 1..N |-> [j \in 1..N |-> g[i - 1][j - 1]]]

\* np.array(list of lists)
np_array(rows) == ToGrid(rows)

\* ------------------------------------------------------------------------
\* Legality checks
\* ------------------------------------------------------------------------
\* sudoku_lib/solver.py SudokuSolver._is_safe: num occurs nowhere in the
\* row, the column and the box of (row, col).
_is_safe(g, row, col, num) ==
    /\ num \notin RowVals(g, row)
    /\ num \notin ColVals(g, col)
    /\ \A c \in BoxCells(row, col) : g[c[1]][c[2]] # num

\* sudoku_solver.py SudokuSolver._is_valid: num occurs in no other cell of
\* the row, the column and the box of pos.
_is_valid(g, num, pos) ==
    /\ \A x \in Idx : ~(g[pos[1]][x] = num /\ pos[2] # x)
    /\ \A x \in Idx : ~(g[x][pos[2]] = num /\ pos[1] # x)
    /\ \A c \in BoxCells(pos[1], pos[2]) : ~(g[c[1]][c[2]] = num /\ c # pos)

\* A variant of SudokuGame._is_safe without the column check.
SudokuGame_is_safe_nocol(g, row, col, num) ==
    /\ num \notin RowVals(g, row)
    /\ \A c \in BoxCells(row, col) : g[c[1]][c[2]] # num

\* sudoku_lib/game.py SudokuGame._is_safe
SudokuGame_is_safe(g, row, col, num) ==
    /\ num \notin RowVals(g, row)
    /\ num \notin ColVals(g, col)
    /\ \A c \in BoxCells(row, col) : g[c[1]][c[2]] # num

\* sudoku.py SudokuGame._is_valid
SudokuGame_is_valid(g, num, pos) ==
    /\ \A x \in Idx : ~(g[pos[1]][x] = num /\ pos[2] # x)
    /\ \A x \in Idx : ~(g[x][pos[2]] = num /\ pos[1] # x)
    /\ \A c \in BoxCells(pos[1], pos[2]) : ~(g[c[1]][c[2]] = num /\ c # pos)

\* The check each search calls: kind names the class that runs the search.
Legal(kind, g, row, col, num) ==
    CASE kind = "solver" -> _is_safe(g, row, col, num)
      [] kind = "sudoku_solver" -> _is_valid(g, num, <<row, col>>)
      [] kind = "game" -> SudokuGame_is_safe(g, row, col, num)
      [] kind = "sudoku" -> SudokuGame_is_valid(g, num, <<row, col>>)

\* ------------------------------------------------------------------------
\* Backtracking search, one call stack frame per placed digit
\* ------------------------------------------------------------------------
NoCell == <<N, 0>>

\* First empty cell at or after rank k in row-major order, NoCell if none.
\* _solve_step_by_step walks (row, col + 1) until grid[row][col] == 0 or
\* row == 9; _find_empty is the same scan from rank 0.
next_empty_from(g, k) ==
    LET S == {c \in EmptyCells(g) : Rank(c) >= k}
    IN IF S = {} THEN NoCell
       ELSE CHOOSE c \in S : \A d \in S : Rank(c) <= Rank(d)

_find_empty(g) == next_empty_from(g, 0)

\* Where the call made by the top frame starts scanning.
ScanFrom(kind, stk) ==
    IF kind = "solver" /\ stk # <<>>
    THEN Rank(<<stk[Len(stk)].row, stk[Len(stk)].col>>) + 1
    ELSE 0

\* A variant of first_legal that takes the largest legal digit.
first_legal_desc(kind, g, row, col, from) ==
    LET S == {n \in from..N : Legal(kind, g, row, col, n)}
    IN IF S = {} THEN N + 1 ELSE CHOOSE n \in S : \A m \in S : n >= m

\* `for num in range(1, 10): if legal: ...` resumed at digit from: the digit
\* placed next, N + 1 when the loop runs out.
first_legal(kind, g, row, col, from) ==
    LET S == {n \in from..N : Legal(kind, g, row, col, n)}
    IN IF S = {} THEN N + 1 ELSE CHOOSE n \in S : \A m \in S : n <= m

\* A variant of undo that clears the cell to the left.
undo_left(g, row, col) == SetCell(g, row, IF col > 0 THEN col - 1 ELSE col, 0)

\* grid[row][col] = 0 after a failed recursion
undo(g, row, col) == SetCell(g, row, col, 0)

\* A variant of restore that keeps the working grid.
restore_keep(g, saved) == g

\* sudoku_solver.py solve, after a failed search: self.grid = original_grid
restore(g, saved) == saved

\* Trace entries: <<kind, row, col, num>> with 0-based row and col.
Step(kind, row, col, num) == <<kind, row, col, num>>

\* The for loop of the call for (row, col), entered at digit from, above the
\* frames stk.  mode "call": a digit was placed and the search recurses;
\* mode "ret": the loop ran out and the call returns False to its caller.
search_loop(kind, g, stk, st, row, col, from) ==
    LET num == first_legal(kind, g, row, col, from)
    IN IF num <= N
       THEN [grid  |-> SetCell(g, row, col, num),
             stack |-> Append(stk, [row |-> row, col |-> col, num |-> num]),
             steps |-> IF kind \in {"solver", "sudoku_solver"}
                       THEN Append(st, Step("try", row, col, num)) ELSE st,
             mode  |-> "call"]
       ELSE [grid |-> g, stack |-> stk, steps |-> st, mode |-> "ret"]

\* A call of the search: no empty cell left returns True up the whole stack
\* (mode "true"), else the loop of the first empty cell starts at digit 1.
search_call(kind, g, stk, st) ==
    LET e == next_empty_from(g, ScanFrom(kind, stk))
    IN IF e = NoCell
       THEN [grid |-> g, stack |-> stk, steps |-> st, mode |-> "true"]
       ELSE search_loop(kind, g, stk, st, e[1], e[2], 1)

\* A variant of search_ret that records no backtrack.
search_ret_quiet(kind, g, stk, st) ==
    IF stk = <<>>
    THEN [grid |-> g, stack |-> stk, steps |-> st, mode |-> "false"]
    ELSE LET top == stk[Len(stk)]
         IN search_loop(kind, undo(g, top.row, top.col), SubSeq(stk, 1, Len(stk) - 1),
                        st, top.row, top.col, top.num + 1)

\* The recursion returned False to the top frame: undo its digit, record the
\* backtrack and go on with the next digit.  With no frame left the root
\* call has returned False (mode "false").
search_ret(kind, g, stk, st) ==
    IF stk = <<>>
    THEN [grid |-> g, stack |-> stk, steps |-> st, mode |-> "false"]
    ELSE LET top == stk[Len(stk)]
             st1 == IF kind \in {"solver", "sudoku_solver"}
                    THEN Append(st, Step("backtrack", top.row, top.col, top.num)) ELSE st
         IN search_loop(kind, undo(g, top.row, top.col), SubSeq(stk, 1, Len(stk) - 1),
                        st1, top.row, top.col, top.num + 1)

search_step(kind, mode, g, stk, st) ==
    IF mode = "call" THEN search_call(kind, g, stk, st) ELSE search_ret(kind, g, stk, st)

\* Up to k steps of the search in a row, stopping when the root call returns.
RECURSIVE search_run(_, _, _)
search_run(kind, r, k) ==
    IF k = 0 \/ r.mode \in {"true", "false"} THEN r
    ELSE search_run(kind, search_step(kind, r.mode, r.grid, r.stack, r.steps), k - 1)

\* ------------------------------------------------------------------------
\* sudoku_solver.py: candidates and the logical reducer
\* ------------------------------------------------------------------------
\* A variant of get_possible_values that leaves the column out.
get_possible_values_nocol(g, row, col) ==
    IF g[row][col] # 0 THEN {}
    ELSE (Digits \ RowVals(g, row)) \ BoxVals(g, row, col)

\* sudoku_solver.py SudokuSolver.get_possible_values
get_possible_values(g, row, col) ==
    IF g[row][col] # 0 THEN {}
    ELSE ((Digits \ RowVals(g, row)) \ ColVals(g, col)) \ BoxVals(g, row, col)

\* The cells of S as a list in row-major order.
SortCells(S) ==
    [k \in 1..Cardinality(S) |->
        CHOOSE c \in S : Cardinality({d \in S : Rank(d) < Rank(c)}) = k - 1]

\* [(i, j, possible)] for the empty cells that have a candidate, row-major.
get_cell_candidates(g) ==
    LET S == {c \in EmptyCells(g) : get_possible_values(g, c[1], c[2]) # {}}
        cells == SortCells(S)
    IN [k \in 1..Len(cells) |->
            <<cells[k][1], cells[k][2], get_possible_values(g, cells[k][1], cells[k][2])>>]

\* The naked-single pass: the candidate list is computed once, before the
\* first placement, and every entry with one candidate is then written.
naked_singles(g, st) ==
    LET cands == get_cell_candidates(g)
        singles == SelectSeq(cands, LAMBDA t : Cardinality(t[3]) = 1)
        value(t) == CHOOSE v \in t[3] : TRUE
        hit(i, j) == {k \in 1..Len(singles) : singles[k][1] = i /\ singles[k][2] = j}
    IN [grid |-> [i \in Idx |-> [j \in Idx |->
                    IF hit(i, j) # {} THEN value(singles[CHOOSE k \in hit(i, j) : TRUE])
                    ELSE g[i][j]]],
        steps |-> st \o [k \in 1..Len(singles) |->
                           Step("naked", singles[k][1], singles[k][2], value(singles[k]))],
        changed |-> Len(singles) > 0]

\* A variant of hidden_single that reports progress as soon as num has a
\* possible column, and writes when it has exactly one.
hidden_single_eager(acc, row, num) ==
    IF num \in RowVals(acc.grid, row) THEN acc
    ELSE LET possible_cols == {col \in Idx : /\ acc.grid[row][col] = 0
                                             /\ num \in get_possible_values(acc.grid, row, col)}
         IN IF Cardinality(possible_cols) = 1
            THEN LET col == CHOOSE c \in possible_cols : TRUE
                 IN [grid |-> SetCell(acc.grid, row, col, num),
                     steps |-> Append(acc.steps, Step("hidden", row, col, num)),
                     changed |-> TRUE]
            ELSE [acc EXCEPT !.changed = @ \/ possible_cols # {}]

\* One (row, num) test of the hidden-single pass, on the grid as it is now.
hidden_single(acc, row, num) ==
    IF num \in RowVals(acc.grid, row) THEN acc
    ELSE LET possible_cols == {col \in Idx : /\ acc.grid[row][col] = 0
                                             /\ num \in get_possible_values(acc.grid, row, col)}
         IN IF Cardinality(possible_cols) = 1
            THEN LET col == CHOOSE c \in possible_cols : TRUE
                 IN [grid |-> SetCell(acc.grid, row, col, num),
                     steps |-> Append(acc.steps, Step("hidden", row, col, num)),
                     changed |-> TRUE]
            ELSE acc

\* for num in range(1, 10), digits 1..num done in order
RECURSIVE hidden_nums(_, _, _)
hidden_nums(acc, row, num) ==
    IF num = 0 THEN acc ELSE hidden_single(hidden_nums(acc, row, num - 1), row, num)

\* for row in range(9), rows 0..row done in order (a row without an empty
\* cell holds every digit, so none of its tests can write)
RECURSIVE hidden_rows(_, _)
hidden_rows(acc, row) ==
    IF row < 0 THEN acc
    ELSE LET done == hidden_rows(acc, row - 1)
         IN IF 0 \notin RowVals(done.grid, row) THEN done ELSE hidden_nums(done, row, N)

\* One iteration of `while changed`: naked singles, then hidden singles if
\* no naked single was written.
reduce_round(g, st) ==
    LET naked == naked_singles(g, st)
    IN IF naked.changed THEN naked ELSE hidden_rows(naked, N - 1)

\* Calls followed to their end in one go: at most RunBound steps of a search
\* and RunBound rounds of the reducer, enough for the grids they are used on.
RunBound == 128

\* `while changed` of sudoku_solver.py solve, run until a round changes nothing
RECURSIVE reduce_run(_, _, _)
reduce_run(g, st, k) ==
    LET r == reduce_round(g, st)
    IN IF r.changed /\ k > 0 THEN reduce_run(r.grid, r.steps, k - 1) ELSE r

\* _solve_step_by_step(0, 0, steps) / _solve_backtracking(steps) from g
search_from(kind, g, st) ==
    search_run(kind, [grid |-> g, stack |-> <<>>, steps |-> st, mode |-> "call"], RunBound)

\* sudoku_lib/solver.py: the part of solve after the lookup in the store,
\* with the search bound once to r.
solver_body(g) ==
    CHOOSE x \in {[success |-> r.mode = "true", grid |-> r.grid, steps |-> r.steps,
                   done |-> r.mode \in {"true", "false"}] :
                     r \in {search_from("solver", g, <<>>)}} : TRUE

\* The part of solve after the lookup in the store: what it returns and the
\* grid it leaves.  done tells that the run reached the end of the call.
solve_body(class, g) ==
    IF class = "solver" THEN solver_body(g)
    ELSE LET red == reduce_run(g, <<>>, RunBound)
         IN IF ~AnyZero(red.grid)
            THEN [success |-> TRUE, grid |-> red.grid, steps |-> red.steps, done |-> TRUE]
            ELSE LET r == search_from("sudoku_solver", red.grid,
                                      Append(red.steps, Step("backtracking", 0, 0, 0)))
                 IN IF r.mode = "true"
                    THEN [success |-> TRUE, grid |-> r.grid,
                          steps |-> Append(r.steps, Step("found", 0, 0, 0)), done |-> TRUE]
                    ELSE [success |-> FALSE, grid |-> restore(r.grid, g), steps |-> r.steps,
                          done |-> r.mode = "false"]

\* ------------------------------------------------------------------------
\* The solution store (solutions_data["puzzles"]): puzzle key -> list of
\* stored solution grids.
\* ------------------------------------------------------------------------
EmptyStore == [k \in {} |-> <<>>]

save_puzzle_state(data, original, g) ==
    LET grid_key == grid_to_key(original)
        d1 == IF grid_key \in DOMAIN data THEN data
              ELSE [k \in DOMAIN data \cup {grid_key} |->
                       IF k = grid_key THEN <<>> ELSE data[k]]
        solution_key == grid_to_key(g)
        stored == {grid_to_key(np_array(d1[grid_key][i])) : i \in 1..Len(d1[grid_key])}
    IN IF solution_key \in stored THEN d1
       ELSE [d1 EXCEPT ![grid_key] = Append(@, tolist(g))]

\* ------------------------------------------------------------------------
\* Saved games (solutions_data["saved_games"]): save name -> save_state.
\* A hint cell is kept with the Python type that holds it, <<type, row, col>>.
\* ------------------------------------------------------------------------
\* list(self.used_hints): the cells as tuples
list_used_hints(used) ==
    LET cells == SortCells(used)
    IN [k \in 1..Len(cells) |-> <<"tuple", cells[k][1], cells[k][2]>>]

\* the dict save_game_state builds
save_state(g, original, used) ==
    [grid |-> tolist(g), original_grid |-> tolist(original),
     used_hints |-> list_used_hints(used)]

\* json.dump then json.load of the saved games: a tuple comes back as a list
json_dump(saves) ==
    [name \in DOMAIN saves |->
        [saves[name] EXCEPT !.used_hints =
            [k \in 1..Len(@) |-> <<"list", @[k][2], @[k][3]>>]]]

\* set(save_state["used_hints"]) raises TypeError on a list element
set_raises(hints) == \E k \in 1..Len(hints) : hints[k][1] = "list"
set_used_hints(hints) == {<<hints[k][2], hints[k][3]>> : k \in 1..Len(hints)}

\* ------------------------------------------------------------------------
\* Validation of a whole grid and of one move
\* ------------------------------------------------------------------------
RowCells(i) == {<<i, j>> : j \in Idx}
ColCells(j) == {<<i, j>> : i \in Idx}

\* The rows, the columns and the boxes in the order the checks visit them:
\* <<unit, index, cells>>, index 1-based, a box indexed by <<box_i+1, box_j+1>>.
RowUnits == [k \in 1..N |-> <<"row", k, RowCells(k - 1)>>]
ColUnits == [k \in 1..N |-> <<"column", k, ColCells(k - 1)>>]
BoxUnits ==
    [k \in 1..N |-> <<"box", <<((k - 1) \div BoxN) + 1, ((k - 1) % BoxN) + 1>>,
                      BoxCells(BoxN * ((k - 1) \div BoxN), BoxN * ((k - 1) % BoxN))>>]
Units == RowUnits \o ColUnits \o BoxUnits

\* set(unit) and list(unit).count(n)
UnitVals(g, cells) == {g[c[1]][c[2]] : c \in cells}
UnitCount(g, cells, n) == Cardinality({c \in cells : g[c[1]][c[2]] = n})

\* An entry of an error list: what it reports, and of which unit.
Error(kind, unit, index, numbers) ==
    [kind |-> kind, unit |-> unit, index |-> index, numbers |-> numbers]

\* The entries among entry[1], ..., entry[n] that are made, in order.
RECURSIVE Collect(_, _, _)
Collect(n, made, entry) ==
    IF n = 0 THEN <<>>
    ELSE IF made[n] THEN Append(Collect(n - 1, made, entry), entry[n])
    ELSE Collect(n - 1, made, entry)

\* sudoku_solver.py SudokuSolver.validate_solution: per unit a "duplicate"
\* entry and, for a unit without 0, a "missing" entry; then "incomplete".
validate_solution(g) ==
    LET checked(u) == Cardinality(UnitVals(g, u[3])) # N \/ 0 \in UnitVals(g, u[3])
        missing(u) == Digits \ UnitVals(g, u[3])
        duplicates(u) == {n \in Digits : UnitCount(g, u[3], n) > 1}
        \* entry 2k-1: duplicates of unit k; entry 2k: missing numbers of unit k
        unit(e) == Units[(e + 1) \div 2]
        made(e) == /\ checked(unit(e))
                   /\ IF e % 2 = 1 THEN duplicates(unit(e)) # {}
                      ELSE missing(unit(e)) # {} /\ 0 \notin UnitVals(g, unit(e)[3])
        entry(e) == IF e % 2 = 1
                    THEN Error("duplicate", unit(e)[1], unit(e)[2], duplicates(unit(e)))
                    ELSE Error("missing", unit(e)[1], unit(e)[2], missing(unit(e)))
        errors == Collect(2 * Len(Units), [e \in 1..(2 * Len(Units)) |-> made(e)],
                          [e \in 1..(2 * Len(Units)) |-> entry(e)])
        all == IF AnyZero(g) THEN Append(errors, Error("incomplete", "grid", 0, {}))
               ELSE errors
    IN [is_valid |-> Len(all) = 0, errors |-> all]

\* sudoku_lib/api.py validate_solution: a grid with a 0 is answered at once
\* with "Grid is incomplete"; else every unit whose set has not 9 members
\* is reported invalid.
api_validate_solution(g) ==
    IF AnyZero(g)
    THEN [is_valid |-> FALSE, errors |-> <<Error("incomplete", "grid", 0, {})>>]
    ELSE LET made(k) == Cardinality(UnitVals(g, Units[k][3])) # N
             entry(k) == Error("invalid", Units[k][1], Units[k][2], {})
             errors == Collect(Len(Units), [k \in 1..Len(Units) |-> made(k)],
                              [k \in 1..Len(Units) |-> entry(k)])
         IN [is_valid |-> Len(errors) = 0, errors |-> errors]

\* sudoku_lib/game.py SudokuGame.verify_solution: the units whose non-zero
\* values are not pairwise different.
verify_solution(g) ==
    LET nonzero(k) == {c \in Units[k][3] : g[c[1]][c[2]] # 0}
        made(k) == Cardinality(nonzero(k)) # Cardinality(UnitVals(g, nonzero(k)))
        entry(k) == Error("duplicate", Units[k][1], Units[k][2], {})
        errors == Collect(Len(Units), [k \in 1..Len(Units) |-> made(k)],
                              [k \in 1..Len(Units) |-> entry(k)])
    IN [is_valid |-> Len(errors) = 0, errors |-> errors]

\* sudoku_solver.py SudokuSolver.check_move: the pair (accepted, message)
Move(accepted, message) == [accepted |-> accepted, message |-> message]

check_move(g, row, col, num) ==
    IF g[row][col] = num THEN Move(TRUE, "already placed")
    ELSE IF num \in RowVals(g, row) THEN Move(FALSE, "row")
    ELSE IF num \in ColVals(g, col) THEN Move(FALSE, "column")
    ELSE IF num \in BoxVals(g, row, col) THEN Move(FALSE, "box")
    ELSE Move(TRUE, "valid move")

\* ------------------------------------------------------------------------
\* Puzzle generation (sudoku_lib/game.py and sudoku.py)
\* ------------------------------------------------------------------------
\* Difficulty labels are strings, modelled as their character codes.
L_easy == <<101, 97, 115, 121>>
L_medium == <<109, 101, 100, 105, 117, 109>>
L_hard == <<104, 97, 114, 100>>
L_EASY == <<69, 65, 83, 89>>
L_Hard == <<72, 97, 114, 100>>
L_invalid == <<105, 110, 118, 97, 108, 105, 100>>
Labels == {L_easy, L_medium, L_hard, L_EASY, L_Hard, L_invalid}

\* str.lower() on ASCII: 'A'..'Z' (65..90) become 'a'..'z'.
str_lower(s) == [i \in 1..Len(s) |-> IF s[i] \in 65..90 THEN s[i] + 32 ELSE s[i]]

RemoveEasy == 30
RemoveMedium == 40
RemoveHard == 50

\* A variant of difficulties_get whose default is the count of easy.
difficulties_get_30(key) ==
    CASE key = L_easy -> RemoveEasy
      [] key = L_medium -> RemoveMedium
      [] key = L_hard -> RemoveHard
      [] OTHER -> RemoveEasy

\* {"easy": 30, "medium": 40, "hard": 50}.get(key, 40)
difficulties_get(key) ==
    CASE key = L_easy -> RemoveEasy
      [] key = L_medium -> RemoveMedium
      [] key = L_hard -> RemoveHard
      [] OTHER -> RemoveMedium

\* cells_to_remove of new_game (game.py looks up difficulty.lower()) and of
\* _remove_numbers (sudoku.py looks up difficulty).
cells_to_remove(class, label) ==
    IF class = "game" THEN difficulties_get(str_lower(label)) ELSE difficulties_get(label)

\* Outcomes of random.shuffle(numbers) for the three diagonal boxes.
MaxFills == 2
FillPool ==
    << << <<1,2,3,4,5,6,7,8,9>>, <<9,1,8,2,7,3,6,4,5>>, <<9,1,8,2,7,3,6,4,5>> >>,
       << <<1,2,3,4,5,6,7,8,9>>, <<2,7,4,9,1,6,3,8,5>>, <<2,7,4,9,1,6,3,8,5>> >>,
       << <<1,2,3,4,5,6,7,8,9>>, <<2,7,4,9,1,6,3,8,5>>, <<9,8,7,6,5,4,3,2,1>> >> >>
Fills == {FillPool[k] : k \in 1..MaxFills}

\* Outcomes of the random choices of the masking: <<a, b>> stands for the
\* choice of index (a * k + b) mod length at the k-th draw.
MaxShuffles == 2
ShufflePool == << <<7, 2>>, <<2, 0>>, <<8, 5>> >>
Shuffles == {ShufflePool[k] : k \in 1..MaxShuffles}

\* _fill_box(grid, row, col) with the shuffled numbers
_fill_box(g, row, col, numbers) ==
    [i \in Idx |-> [j \in Idx |->
        IF i \in row..(row + BoxN - 1) /\ j \in col..(col + BoxN - 1)
        THEN numbers[BoxN * (i - row) + (j - col) + 1]
        ELSE g[i][j]]]

\* for i in range(0, 9, 3): _fill_box(grid, i, i)
fill_diagonal(fill) ==
    _fill_box(_fill_box(_fill_box(EmptyGrid, 0, 0, fill[1]), BoxN, BoxN, fill[2]),
              2 * BoxN, 2 * BoxN, fill[3])

\* [(i, j) for i in range(9) for j in range(9)]
positions == [k \in 1..(N * N) |-> CellOf(k - 1)]

\* A variant of random_shuffle that can repeat an element.
random_shuffle_repeat(seq, sh) ==
    [k \in 1..Len(seq) |-> seq[((BoxN * sh[1] * (k - 1) + sh[2]) % Len(seq)) + 1]]

\* random.shuffle(seq): a rearrangement of seq
random_shuffle(seq, sh) ==
    [k \in 1..Len(seq) |-> seq[((sh[1] * (k - 1) + sh[2]) % Len(seq)) + 1]]

\* for i, j in positions[:cells_to_remove]: puzzle[i][j] = 0
mask(solution, shuffled, count) ==
    LET chosen == {shuffled[k] : k \in 1..count}
    IN [i \in Idx |-> [j \in Idx |-> IF <<i, j>> \in chosen THEN 0 ELSE solution[i][j]]]

\* random.choice(cells) at the draw number k (0-based): an index into cells
random_choice(seq, sh, k) == ((sh[1] * k + sh[2]) % Len(seq)) + 1

\* cells.remove(cell)
list_remove(seq, at) == [k \in 1..(Len(seq) - 1) |-> IF k < at THEN seq[k] ELSE seq[k + 1]]

\* ------------------------------------------------------------------------
\* State
\* ------------------------------------------------------------------------
VARIABLES
    given,            \* the grids a caller holds (an input, or a generated puzzle)
    session,          \* class of the live solver session: "none", "solver", "sudoku_solver"
    grid,             \* self.grid
    original_grid,    \* self.original_grid
    used_hints,       \* self.used_hints
    solutions_data,   \* self.solutions_data["puzzles"]
    solutions_file,   \* "puzzles" of sudoku_solutions.json
    pc,               \* position of the running solve: "idle", "reduce", "call", "ret",
                      \* inside get_hint: "hint_reduce", "hint_call", "hint_ret"
    stack,            \* frames of the running search
    steps,            \* the trace being built
    call_grid,        \* self.grid when solve was entered (sudoku_solver.py: local original_grid)
    result,           \* what the last solve returned
    previous,         \* what the solve before it returned
    game,             \* class of the SudokuGame: "none", "game", "sudoku"
    gpc,              \* position of the running new_game
    ggrid,            \* the grid the generator works on
    generated,        \* the full grid _solve_grid left, before the masking
    gstack,           \* frames of the generator's search
    difficulty,       \* the label new_game was called with
    cells,            \* _remove_numbers: cells not yet chosen
    remaining,        \* _remove_numbers: iterations left
    shuffle,          \* the outcome of the random choices of the masking
    current_puzzle,   \* SudokuGame.current_puzzle
    game_result,      \* what the last new_game returned
    query,            \* what the last read-only call (a check, a validation) returned
    hint,             \* what the last get_hint returned
    hinted,           \* the cells get_hint has returned in this session
    hint_grid,        \* get_hint: its local original_grid while its solve runs
    saved_games,      \* self.solutions_data["saved_games"]
    saved_file,       \* "saved_games" of sudoku_solutions.json
    loaded,           \* what the last save_game_state / load_game_state returned
    peer,             \* a second solver session, constructed on its own
    response,         \* what the last API request was answered with
    move              \* what the last make_move returned

solverVars == <<session, grid, original_grid, used_hints, solutions_data, solutions_file,
                pc, stack, steps, call_grid, result, previous>>
gameVars == <<game, gpc, ggrid, generated, gstack, difficulty, cells, remaining, shuffle,
              current_puzzle, game_result>>
callVars == <<query, hint, hinted, hint_grid>>
restVars == <<saved_games, loaded, peer, response, move>>
moreVars == <<saved_file, restVars>>
vars == <<given, solverVars, gameVars, callVars, moreVars>>

NoResult == [op |-> "none", class |-> "none", success |-> FALSE, steps |-> <<>>,
             grid |-> EmptyGrid, before |-> EmptyGrid, original |-> EmptyGrid,
             cached |-> FALSE]

NoGameResult == [op |-> "none", raised |-> FALSE, puzzle |-> EmptyGrid,
                 difficulty |-> <<>>, class |-> "none"]

InitSolver ==
    /\ session = "none"
    /\ grid = EmptyGrid
    /\ original_grid = EmptyGrid
    /\ used_hints = {}
    /\ solutions_data = EmptyStore
    /\ solutions_file = EmptyStore
    /\ pc = "idle"
    /\ stack = <<>>
    /\ steps = <<>>
    /\ call_grid = EmptyGrid
    /\ result = NoResult
    /\ previous = NoResult

InitGame ==
    /\ game = "none"
    /\ gpc = "idle"
    /\ ggrid = EmptyGrid
    /\ generated = EmptyGrid
    /\ gstack = <<>>
    /\ difficulty = <<>>
    /\ cells = <<>>
    /\ remaining = 0
    /\ shuffle = <<1, 0>>
    /\ current_puzzle = EmptyGrid
    /\ game_result = NoGameResult

NoQuery == [op |-> "none", class |-> "none", row |-> 0, col |-> 0, num |-> 0,
            value |-> FALSE, grid |-> EmptyGrid]

NoHint == [op |-> "none", class |-> "none", returned |-> FALSE, row |-> 0, col |-> 0,
           value |-> 0, kind |-> "none", grid_before |-> EmptyGrid, grid_after |-> EmptyGrid,
           original_before |-> EmptyGrid, original_after |-> EmptyGrid,
           used_before |-> {}, used_after |-> {}, hinted_before |-> {}]

InitCalls ==
    /\ query = NoQuery
    /\ hint = NoHint
    /\ hinted = {}
    /\ hint_grid = EmptyGrid

NoLoad == [op |-> "none", name |-> "none", returned |-> FALSE, calls |-> 0,
           grid_before |-> EmptyGrid, original_before |-> EmptyGrid, used_before |-> {},
           grid_after |-> EmptyGrid, original_after |-> EmptyGrid, used_after |-> {},
           saves_before |-> EmptyStore]

\* The second session, and what the two sessions share: the dicts of the
\* class attribute DEFAULT_STRUCTURE and the default file.  aliased tells
\* that the session's data are the class dicts themselves (a shallow copy);
\* when the first session is aliased (b_aliased) the class dicts are the
\* variables solutions_data and saved_games, else class_puzzles and class_saved.
NoPeer == [session |-> "none", grid |-> EmptyGrid, original_grid |-> EmptyGrid,
           used_hints |-> {}, solutions_data |-> EmptyStore, saved_games |-> EmptyStore,
           calls |-> 0, path |-> "none", aliased |-> FALSE,
           class_puzzles |-> EmptyStore, class_saved |-> EmptyStore,
           b_aliased |-> FALSE, default_exists |-> FALSE]

\* No request has been answered.  status_code is what the client receives,
\* raised the status of the HTTPException the handler body raised first
\* (0: none), grid the grid of the request, puzzle the grid of the answer.
NoResponse == [op |-> "none", calls |-> 0, status_code |-> 0, raised |-> 0,
               grid |-> EmptyGrid, success |-> FALSE, is_valid |-> FALSE,
               puzzle |-> EmptyGrid, hint |-> [found |-> FALSE, row |-> 0, col |-> 0, value |-> 0],
               difficulty |-> <<>>]

\* No move has been made.  before is current_puzzle when make_move was
\* entered.
NoMove == [op |-> "none", row |-> 0, col |-> 0, num |-> 0, returned |-> FALSE,
           before |-> EmptyGrid]

InitMore ==
    /\ saved_games = EmptyStore
    /\ saved_file = EmptyStore
    /\ loaded = NoLoad
    /\ peer = NoPeer
    /\ response = NoResponse
    /\ move = NoMove

\* A caller holds one of the bounded input grids.
Init ==
    /\ given \in {{g} : g \in Inputs}
    /\ InitSolver
    /\ InitGame
    /\ InitCalls
    /\ InitMore

\* ------------------------------------------------------------------------
\* Solver sessions
\* ------------------------------------------------------------------------
\* SudokuSolver(grid): copies of the grid, an empty hint ledger, and the
\* solutions data read from the file.
SudokuSolver(class) ==
    /\ pc = "idle"
    /\ gpc = "idle"
    /\ \E g \in given :
          /\ grid' = g
          /\ original_grid' = g
    /\ session' = class
    /\ used_hints' = {}
    /\ hinted' = {}
    /\ solutions_data' = solutions_file
    /\ saved_games' = saved_file
    /\ UNCHANGED <<given, solutions_file, saved_file, pc, stack, steps, call_grid, result, previous,
                   gameVars, query, hint, hint_grid, loaded, peer, response, move>>

Returned(success, st, g, cached) ==
    [op |-> "solve", class |-> session, success |-> success, steps |-> st, grid |-> g,
     before |-> call_grid, original |-> original_grid, cached |-> cached]

\* solve returns True after save_puzzle_state(), which also writes the file.
ReturnTrue(st, g) ==
    /\ grid' = g
    /\ solutions_data' = save_puzzle_state(solutions_data, original_grid, g)
    /\ solutions_file' = solutions_data'
    /\ saved_file' = json_dump(saved_games)
    /\ result' = Returned(TRUE, st, g, FALSE)
    /\ previous' = result
    /\ pc' = "idle"
    /\ stack' = <<>>
    /\ steps' = <<>>

ReturnFalse(st, g) ==
    /\ grid' = g
    /\ result' = Returned(FALSE, st, g, FALSE)
    /\ previous' = result
    /\ pc' = "idle"
    /\ stack' = <<>>
    /\ steps' = <<>>
    /\ UNCHANGED <<solutions_data, solutions_file, saved_file>>

\* solve(), up to the start of the search / of the reducer: a puzzle key
\* found in the store is answered with its first stored grid.
solve_enter(next_pc) ==
    /\ pc = "idle"
    /\ LET grid_key == grid_to_key(original_grid)
       IN IF grid_key \in DOMAIN solutions_data
          THEN /\ grid' = np_array(solutions_data[grid_key][1])
               /\ result' = [op |-> "solve", class |-> session, success |-> TRUE,
                             steps |-> <<Step("cached", 0, 0, 0)>>, grid |-> grid',
                             before |-> grid, original |-> original_grid, cached |-> TRUE]
               /\ previous' = result
               /\ UNCHANGED <<pc, stack, steps, call_grid>>
          ELSE /\ steps' = <<>>
               /\ stack' = <<>>
               /\ call_grid' = grid
               /\ pc' = next_pc
               /\ UNCHANGED <<grid, result, previous>>
    /\ UNCHANGED <<given, session, original_grid, used_hints, solutions_data, solutions_file, saved_file,
                   gameVars, restVars, callVars>>

\* sudoku_lib/solver.py SudokuSolver.solve
solver_solve ==
    /\ session = "solver"
    /\ solve_enter("call")

\* sudoku_lib/solver.py: one step of _solve_step_by_step(0, 0, steps) and,
\* when the root call returns, the rest of solve.
solver_solve_step_by_step ==
    /\ session = "solver"
    /\ pc \in {"call", "ret"}
    /\ LET r == search_step("solver", pc, grid, stack, steps)
       IN CASE r.mode = "true"  -> ReturnTrue(r.steps, r.grid)
            [] r.mode = "false" -> ReturnFalse(r.steps, r.grid)
            [] OTHER -> /\ grid' = r.grid
                        /\ stack' = r.stack
                        /\ steps' = r.steps
                        /\ pc' = r.mode
                        /\ UNCHANGED <<solutions_data, solutions_file, saved_file, result, previous>>
    /\ UNCHANGED <<given, session, original_grid, used_hints, call_grid, gameVars, restVars, callVars>>

\* sudoku_solver.py SudokuSolver.solve, up to the reducer
sudoku_solver_solve ==
    /\ session = "sudoku_solver"
    /\ solve_enter("reduce")

\* sudoku_solver.py: one iteration of `while changed` and, when nothing
\* changed, the code after the loop: the search starts if a cell is empty,
\* else the grid is stored and solve returns True.
sudoku_solver_reduce ==
    /\ session = "sudoku_solver"
    /\ pc = "reduce"
    /\ LET r == reduce_round(grid, steps)
       IN IF r.changed
          THEN /\ grid' = r.grid
               /\ steps' = r.steps
               /\ UNCHANGED <<pc, stack, solutions_data, solutions_file, saved_file, result, previous>>
          ELSE IF AnyZero(r.grid)
          THEN /\ steps' = Append(r.steps, Step("backtracking", 0, 0, 0))
               /\ pc' = "call"
               /\ UNCHANGED <<grid, stack, solutions_data, solutions_file, saved_file, result, previous>>
          ELSE ReturnTrue(r.steps, r.grid)
    /\ UNCHANGED <<given, session, original_grid, used_hints, call_grid, gameVars, restVars, callVars>>

\* sudoku_solver.py: one step of _solve_backtracking(steps) and, when the
\* root call returns, the rest of solve: on failure self.grid = original_grid.
sudoku_solver_solve_backtracking ==
    /\ session = "sudoku_solver"
    /\ pc \in {"call", "ret"}
    /\ LET r == search_step("sudoku_solver", pc, grid, stack, steps)
       IN CASE r.mode = "true"  -> ReturnTrue(Append(r.steps, Step("found", 0, 0, 0)), r.grid)
            [] r.mode = "false" -> ReturnFalse(r.steps, restore(r.grid, call_grid))
            [] OTHER -> /\ grid' = r.grid
                        /\ stack' = r.stack
                        /\ steps' = r.steps
                        /\ pc' = r.mode
                        /\ UNCHANGED <<solutions_data, solutions_file, saved_file, result, previous>>
    /\ UNCHANGED <<given, session, original_grid, used_hints, call_grid, gameVars, restVars, callVars>>

\* The searches on the grids of the test suite take thousands of steps; there
\* they are followed Burst steps at a time.
Burst == 128

Running == [grid |-> grid, stack |-> stack, steps |-> steps, mode |-> pc]

\* sudoku_lib/solver.py: Burst steps of _solve_step_by_step(0, 0, steps) and,
\* when the root call returns, the rest of solve.
solver_solve_step_by_step_burst ==
    /\ session = "solver"
    /\ pc \in {"call", "ret"}
    /\ LET r == search_run("solver", Running, Burst)
       IN CASE r.mode = "true"  -> ReturnTrue(r.steps, r.grid)
            [] r.mode = "false" -> ReturnFalse(r.steps, r.grid)
            [] OTHER -> /\ grid' = r.grid
                        /\ stack' = r.stack
                        /\ steps' = r.steps
                        /\ pc' = r.mode
                        /\ UNCHANGED <<solutions_data, solutions_file, saved_file, result, previous>>
    /\ UNCHANGED <<given, session, original_grid, used_hints, call_grid, gameVars, restVars, callVars>>

\* sudoku_solver.py: Burst steps of _solve_backtracking(steps) and, when the
\* root call returns, the rest of solve.
sudoku_solver_solve_backtracking_burst ==
    /\ session = "sudoku_solver"
    /\ pc \in {"call", "ret"}
    /\ LET r == search_run("sudoku_solver", Running, Burst)
       IN CASE r.mode = "true"  -> ReturnTrue(Append(r.steps, Step("found", 0, 0, 0)), r.grid)
            [] r.mode = "false" -> ReturnFalse(r.steps, restore(r.grid, call_grid))
            [] OTHER -> /\ grid' = r.grid
                        /\ stack' = r.stack
                        /\ steps' = r.steps
                        /\ pc' = r.mode
                        /\ UNCHANGED <<solutions_data, solutions_file, saved_file, result, previous>>
    /\ UNCHANGED <<given, session, original_grid, used_hints, call_grid, gameVars, restVars, callVars>>

\* ------------------------------------------------------------------------
\* Puzzle generators
\* ------------------------------------------------------------------------
\* new_game(difficulty), up to the call of _solve_grid: the three diagonal
\* boxes are filled with shuffled digits.  A behaviour follows one puzzle.
new_game_enter(class) ==
    /\ gpc = "idle"
    /\ pc = "idle"
    /\ given = {}
    /\ \E label \in Labels, fill \in Fills :
          /\ difficulty' = label
          /\ ggrid' = fill_diagonal(fill)
    /\ game' = class
    /\ gstack' = <<>>
    /\ gpc' = "call"
    /\ UNCHANGED <<given, solverVars, callVars, moreVars, generated, cells, remaining, shuffle, current_puzzle,
                   game_result>>

GameReturned(puzzle) ==
    [op |-> "new_game", raised |-> FALSE, puzzle |-> puzzle, difficulty |-> difficulty,
     class |-> game]

\* sudoku_lib/game.py SudokuGame.new_game
game_new_game == new_game_enter("game")

\* sudoku_lib/game.py: one step of _solve_grid(grid) and, when the root call
\* returns (its value is not looked at), the rest of new_game: the lookup of
\* cells_to_remove, the shuffle, the masking and the return of the puzzle.
game_solve_grid ==
    /\ game = "game"
    /\ gpc \in {"call", "ret"}
    /\ LET r == search_step("game", gpc, ggrid, gstack, <<>>)
       IN IF r.mode \in {"true", "false"}
          THEN \E sh \in Shuffles :
                  LET puzzle == mask(r.grid, random_shuffle(positions, sh),
                                     cells_to_remove("game", difficulty))
                  IN /\ shuffle' = sh
                     /\ ggrid' = r.grid
                     /\ generated' = r.grid
                     /\ gstack' = <<>>
                     /\ current_puzzle' = puzzle
                     /\ game_result' = GameReturned(puzzle)
                     /\ given' = {puzzle}
                     /\ gpc' = "idle"
          ELSE /\ ggrid' = r.grid
               /\ gstack' = r.stack
               /\ gpc' = r.mode
               /\ UNCHANGED <<given, generated, shuffle, current_puzzle, game_result>>
    /\ UNCHANGED <<solverVars, callVars, moreVars, game, difficulty, cells, remaining>>

\* sudoku.py SudokuGame.new_game, into generate_puzzle
sudoku_new_game == new_game_enter("sudoku")

\* sudoku.py: one step of _solve_grid(grid) in generate_puzzle and, when the
\* root call returns, the start of _remove_numbers.
sudoku_solve_grid ==
    /\ game = "sudoku"
    /\ gpc \in {"call", "ret"}
    /\ LET r == search_step("sudoku", gpc, ggrid, gstack, <<>>)
       IN IF r.mode \in {"true", "false"}
          THEN /\ ggrid' = r.grid
               /\ generated' = r.grid
               /\ gstack' = <<>>
               /\ remaining' = cells_to_remove("sudoku", difficulty)
               /\ cells' = positions
               /\ shuffle' \in Shuffles
               /\ gpc' = "remove"
          ELSE /\ ggrid' = r.grid
               /\ gstack' = r.stack
               /\ gpc' = r.mode
               /\ UNCHANGED <<generated, cells, remaining, shuffle>>
    /\ UNCHANGED <<given, solverVars, callVars, moreVars, game, difficulty, current_puzzle, game_result>>

\* sudoku.py: one iteration of the loop of _remove_numbers and, when the
\* loop ends, the return of generate_puzzle and the copy kept as solution.
sudoku_remove_numbers ==
    /\ game = "sudoku"
    /\ gpc = "remove"
    /\ IF remaining = 0 \/ cells = <<>>
       THEN /\ current_puzzle' = ggrid
            /\ gstack' = <<>>
            /\ gpc' = "solution_call"
            /\ UNCHANGED <<ggrid, cells, remaining>>
       ELSE LET at == random_choice(cells, shuffle, N * N - Len(cells))
                cell == cells[at]
            IN /\ cells' = list_remove(cells, at)
               /\ ggrid' = SetCell(ggrid, cell[1], cell[2], 0)
               /\ remaining' = remaining - 1
               /\ UNCHANGED <<gstack, gpc, current_puzzle>>
    /\ UNCHANGED <<given, solverVars, callVars, moreVars, game, difficulty, generated, shuffle, game_result>>

\* sudoku.py: one step of _solve_grid(self.solution) and, when the root call
\* returns, the return of current_puzzle by new_game.
sudoku_solve_solution ==
    /\ game = "sudoku"
    /\ gpc \in {"solution_call", "solution_ret"}
    /\ LET r == search_step("sudoku", IF gpc = "solution_call" THEN "call" ELSE "ret",
                            ggrid, gstack, <<>>)
       IN IF r.mode \in {"true", "false"}
          THEN /\ ggrid' = r.grid
               /\ gstack' = <<>>
               /\ game_result' = GameReturned(current_puzzle)
               /\ given' = {current_puzzle}
               /\ gpc' = "idle"
          ELSE /\ ggrid' = r.grid
               /\ gstack' = r.stack
               /\ gpc' = IF r.mode = "call" THEN "solution_call" ELSE "solution_ret"
               /\ UNCHANGED <<given, game_result>>
    /\ UNCHANGED <<solverVars, callVars, moreVars, game, difficulty, generated, cells, remaining, shuffle,
                   current_puzzle>>

\* ------------------------------------------------------------------------
\* Specifications
\* ------------------------------------------------------------------------
Next ==
    \/ SudokuSolver("solver")
    \/ SudokuSolver("sudoku_solver")
    \/ solver_solve
    \/ solver_solve_step_by_step
    \/ sudoku_solver_solve
    \/ sudoku_solver_reduce
    \/ sudoku_solver_solve_backtracking

\* Solver sessions on the bounded input grids.
Spec == Init /\ [][Next]_vars

\* The grids of the test suite: the puzzle of test_solve_puzzle, the empty
\* grid of test_solve_empty_puzzle and the grid of
\* test_solve_with_initial_values.
InitExamples ==
    /\ given \in {{ClassicPuzzle}, {EmptyGrid}, {InitialValues}}
    /\ InitSolver
    /\ InitGame
    /\ InitCalls
    /\ InitMore

NextExamples ==
    \/ SudokuSolver("solver")
    \/ SudokuSolver("sudoku_solver")
    \/ solver_solve
    \/ solver_solve_step_by_step_burst
    \/ sudoku_solver_solve
    \/ sudoku_solver_reduce
    \/ sudoku_solver_solve_backtracking_burst

\* Solver sessions on the grids of the test suite.
SpecExamples == InitExamples /\ [][NextExamples]_vars

\* No grid is held until a generator returns one.
InitGenerated ==
    /\ given = {}
    /\ InitSolver
    /\ InitGame
    /\ InitCalls
    /\ InitMore

NextGame ==
    \/ game_new_game
    \/ game_solve_grid
    \/ sudoku_new_game
    \/ sudoku_solve_grid
    \/ sudoku_remove_numbers
    \/ sudoku_solve_solution
    \/ Next

\* Generators, and solver sessions on the puzzle they return.
SpecGame == InitGenerated /\ [][NextGame]_vars

\* ------------------------------------------------------------------------
\* Read-only calls: legality, candidates, validation, check_move
\* ------------------------------------------------------------------------
Asked(op, class, row, col, num, value, g) ==
    [op |-> op, class |-> class, row |-> row, col |-> col, num |-> num,
     value |-> value, grid |-> g]

\* A call that reads the grid of the session and writes nothing; a
\* behaviour follows one such call.
SessionQuery(class, results) ==
    /\ session = class
    /\ pc = "idle"
    /\ query = NoQuery
    /\ query' \in results
    /\ UNCHANGED <<given, solverVars, gameVars, moreVars, hint, hinted, hint_grid>>

\* sudoku_lib/solver.py SudokuSolver._is_safe(row, col, num)
solver_is_safe ==
    SessionQuery("solver",
        {Asked("_is_safe", "solver", c[1], c[2], num, _is_safe(grid, c[1], c[2], num), grid) :
            c \in QueryCells, num \in Digits})

\* sudoku_solver.py SudokuSolver._is_valid(num, (row, col))
sudoku_solver_is_valid ==
    SessionQuery("sudoku_solver",
        {Asked("_is_valid", "sudoku_solver", c[1], c[2], num, _is_valid(grid, num, c), grid) :
            c \in QueryCells, num \in Digits})

\* sudoku_solver.py SudokuSolver.get_possible_values(row, col)
sudoku_solver_get_possible_values ==
    SessionQuery("sudoku_solver",
        {Asked("get_possible_values", "sudoku_solver", c[1], c[2], 0,
               get_possible_values(grid, c[1], c[2]), grid) : c \in QueryCells})

\* sudoku_solver.py SudokuSolver.check_move(row, col, num)
sudoku_solver_check_move ==
    SessionQuery("sudoku_solver",
        {Asked("check_move", "sudoku_solver", c[1], c[2], num,
               check_move(grid, c[1], c[2], num), grid) : c \in QueryCells, num \in Digits})

\* sudoku_solver.py SudokuSolver.validate_solution()
sudoku_solver_validate_solution ==
    SessionQuery("sudoku_solver",
        {Asked("validate_solution", "sudoku_solver", 0, 0, 0, validate_solution(grid), grid)})

\* A call on a grid the caller passes in.
GridQuery(results) ==
    /\ pc = "idle"
    /\ query = NoQuery
    /\ query' \in results
    /\ UNCHANGED <<given, solverVars, gameVars, moreVars, hint, hinted, hint_grid>>

\* sudoku_lib/game.py SudokuGame._is_safe(grid, row, col, num)
game_is_safe ==
    GridQuery({Asked("_is_safe", "game", c[1], c[2], num,
                     SudokuGame_is_safe(g, c[1], c[2], num), g) :
                  g \in given, c \in QueryCells, num \in Digits})

\* sudoku_lib/game.py SudokuGame.verify_solution(grid)
game_verify_solution ==
    GridQuery({Asked("verify_solution", "game", 0, 0, 0, verify_solution(g), g) : g \in given})

\* sudoku_lib/api.py validate_solution(grid)
api_validate_solution_call ==
    GridQuery({Asked("validate_solution", "api", 0, 0, 0, api_validate_solution(g), g) :
                  g \in given})

InitCheck ==
    /\ given \in {{g} : g \in CheckInputs}
    /\ InitSolver
    /\ InitGame
    /\ InitCalls
    /\ InitMore

NextCheck ==
    \/ SudokuSolver("solver")
    \/ SudokuSolver("sudoku_solver")
    \/ solver_is_safe
    \/ sudoku_solver_is_valid
    \/ sudoku_solver_get_possible_values
    \/ sudoku_solver_check_move
    \/ sudoku_solver_validate_solution
    \/ game_is_safe
    \/ game_verify_solution
    \/ api_validate_solution_call

\* Read-only calls on the bounded grids.
SpecCheck == InitCheck /\ [][NextCheck]_vars

\* ------------------------------------------------------------------------
\* Hints
\* ------------------------------------------------------------------------
\* Inputs of the hint sessions: the solved grid with the first n cells of
\* HolePool emptied, n up to MaxHintHoles, and at most one cell overwritten.
MaxHintHoles == 4
MaxHintPokes == 1

HintInputs ==
    {Poke(Blank(ValidSolution, {HolePool[k] : k \in 1..n}), p) :
        n \in 0..MaxHintHoles,
        p \in {<<>>} \cup {PokePool[k] : k \in 1..MaxHintPokes}}

\* What a scan for a hint comes back with.
NoFind == [found |-> FALSE, row |-> 0, col |-> 0, value |-> 0]
Find(row, col, value) == [found |-> TRUE, row |-> row, col |-> col, value |-> value]

\* sudoku_solver.py get_hint: the first entry of get_cell_candidates() with
\* one value whose cell is not in the ledger.
hint_naked_single(g, used) ==
    LET cands == get_cell_candidates(g)
        S == {k \in 1..Len(cands) : /\ Cardinality(cands[k][3]) = 1
                                     /\ <<cands[k][1], cands[k][2]>> \notin used}
    IN IF S = {} THEN NoFind
       ELSE LET k == CHOOSE a \in S : \A b \in S : a <= b
            IN Find(cands[k][1], cands[k][2], CHOOSE v \in cands[k][3] : TRUE)

\* sudoku_solver.py get_hint: possible_cols of (row, num)
hint_possible_cols(g, used, row, num) ==
    {col \in Idx : /\ g[row][col] = 0
                   /\ <<row, col>> \notin used
                   /\ num \in get_possible_values(g, row, col)}

\* sudoku_solver.py get_hint: the first (row, num), rows then digits in
\* order, with num not in the row and exactly one possible column.
hint_hidden_single(g, used) ==
    LET S == {p \in Idx \X Digits :
                 /\ p[2] \notin RowVals(g, p[1])
                 /\ Cardinality(hint_possible_cols(g, used, p[1], p[2])) = 1}
    IN IF S = {} THEN NoFind
       ELSE LET p == CHOOSE a \in S :
                        \A b \in S : a[1] < b[1] \/ (a[1] = b[1] /\ a[2] <= b[2])
            IN Find(p[1], CHOOSE c \in hint_possible_cols(g, used, p[1], p[2]) : TRUE, p[2])

\* A variant of first_difference that takes the cells the solve left empty.
first_difference_unsolved(before, solution, skip) ==
    LET S == {c \in Cells : /\ before[c[1]][c[2]] = 0
                            /\ solution[c[1]][c[2]] = 0
                            /\ c \notin skip}
    IN IF S = {} THEN NoFind
       ELSE LET c == CHOOSE a \in S : \A b \in S : Rank(a) <= Rank(b)
            IN Find(c[1], c[2], solution[c[1]][c[2]])

\* The loops that end get_hint: the first cell in row-major order that was
\* empty before the solve, is filled by it and is not in skip.
\* sudoku_lib/solver.py skips nothing, sudoku_solver.py skips the ledger.
first_difference(before, solution, skip) ==
    LET S == {c \in Cells : /\ before[c[1]][c[2]] = 0
                            /\ solution[c[1]][c[2]] # 0
                            /\ c \notin skip}
    IN IF S = {} THEN NoFind
       ELSE LET c == CHOOSE a \in S : \A b \in S : Rank(a) <= Rank(b)
            IN Find(c[1], c[2], solution[c[1]][c[2]])

\* get_hint returns f (None when nothing was found) and leaves `after` in
\* self.grid; a returned cell enters the ledger.  hint keeps the return
\* value together with what the session held before and after the call.
hint_return(kind, f, before, after) ==
    /\ grid' = after
    /\ original_grid' = original_grid
    /\ used_hints' = IF f.found THEN used_hints \cup {<<f.row, f.col>>} ELSE used_hints
    /\ hinted' = IF f.found THEN hinted \cup {<<f.row, f.col>>} ELSE hinted
    /\ hint' = [op |-> "get_hint", class |-> session, returned |-> f.found,
                row |-> f.row, col |-> f.col, value |-> f.value,
                kind |-> IF f.found THEN kind ELSE "none",
                grid_before |-> before, grid_after |-> grid',
                original_before |-> original_grid, original_after |-> original_grid',
                used_before |-> used_hints, used_after |-> used_hints',
                hinted_before |-> hinted]
    /\ hint_grid' = EmptyGrid
    /\ pc' = "idle"
    /\ stack' = <<>>
    /\ steps' = <<>>

\* The solve called by get_hint starts searching.
hint_solve_start(next_pc) ==
    /\ hint_grid' = grid
    /\ call_grid' = grid
    /\ stack' = <<>>
    /\ steps' = <<>>
    /\ pc' = next_pc
    /\ UNCHANGED <<grid, original_grid, used_hints, hint, hinted, solutions_data,
                   solutions_file, saved_file>>

\* The solve called by get_hint goes on.
hint_solve_goes_on(r, next_pc) ==
    /\ grid' = r.grid
    /\ stack' = r.stack
    /\ steps' = r.steps
    /\ pc' = next_pc
    /\ UNCHANGED <<original_grid, used_hints, hint, hinted, hint_grid, solutions_data,
                   solutions_file, saved_file>>

\* The solve called by get_hint stores the grid it found.
hint_solve_saves(g) ==
    /\ solutions_data' = save_puzzle_state(solutions_data, original_grid, g)
    /\ solutions_file' = solutions_data'
    /\ saved_file' = json_dump(saved_games)

\* sudoku_lib/solver.py SudokuSolver.get_hint, up to the search of the solve
\* it calls; a puzzle key found in the store ends the call here.
solver_get_hint ==
    /\ session = "solver"
    /\ pc = "idle"
    /\ LET grid_key == grid_to_key(original_grid)
       IN IF grid_key \in DOMAIN solutions_data
          THEN LET solution == np_array(solutions_data[grid_key][1])
               IN /\ hint_return("solve", first_difference(grid, solution, {}), grid, grid)
                  /\ UNCHANGED <<solutions_data, solutions_file, saved_file, call_grid>>
          ELSE hint_solve_start("hint_call")
    /\ UNCHANGED <<given, session, result, previous, gameVars, restVars, query>>

\* sudoku_lib/solver.py get_hint: one step of the search and, when the root
\* call returns, the rest of solve and of get_hint: self.grid = original_grid
\* and the first difference.
solver_get_hint_step_by_step ==
    /\ session = "solver"
    /\ pc \in {"hint_call", "hint_ret"}
    /\ LET r == search_step("solver", IF pc = "hint_call" THEN "call" ELSE "ret",
                            grid, stack, steps)
       IN CASE r.mode = "true" ->
                 /\ hint_solve_saves(r.grid)
                 /\ hint_return("solve", first_difference(hint_grid, r.grid, {}),
                                hint_grid, hint_grid)
            [] r.mode = "false" ->
                 /\ hint_return("none", NoFind, hint_grid, r.grid)
                 /\ UNCHANGED <<solutions_data, solutions_file, saved_file>>
            [] OTHER ->
                 hint_solve_goes_on(r, IF r.mode = "call" THEN "hint_call" ELSE "hint_ret")
    /\ UNCHANGED <<given, session, call_grid, result, previous, gameVars, restVars, query>>

\* sudoku_solver.py SudokuSolver.get_hint, up to the reducer of the solve it
\* calls: a naked single, a hidden single or a puzzle key found in the
\* store ends the call here.
sudoku_solver_get_hint ==
    /\ session = "sudoku_solver"
    /\ pc = "idle"
    /\ LET naked == hint_naked_single(grid, used_hints)
           hidden == hint_hidden_single(grid, used_hints)
           grid_key == grid_to_key(original_grid)
       IN IF naked.found
          THEN /\ hint_return("naked", naked, grid, grid)
               /\ UNCHANGED <<solutions_data, solutions_file, saved_file, call_grid>>
          ELSE IF hidden.found
          THEN /\ hint_return("hidden", hidden, grid, grid)
               /\ UNCHANGED <<solutions_data, solutions_file, saved_file, call_grid>>
          ELSE IF grid_key \in DOMAIN solutions_data
          THEN LET solution == np_array(solutions_data[grid_key][1])
               IN /\ hint_return("solve", first_difference(grid, solution, used_hints),
                                 grid, solution)
                  /\ UNCHANGED <<solutions_data, solutions_file, saved_file, call_grid>>
          ELSE hint_solve_start("hint_reduce")
    /\ UNCHANGED <<given, session, result, previous, gameVars, restVars, query>>

\* sudoku_solver.py get_hint: one iteration of `while changed` of the solve
\* and, when nothing changed, the code after the loop.
sudoku_solver_get_hint_reduce ==
    /\ session = "sudoku_solver"
    /\ pc = "hint_reduce"
    /\ LET r == reduce_round(grid, steps)
       IN IF r.changed
          THEN hint_solve_goes_on([grid |-> r.grid, stack |-> stack, steps |-> r.steps],
                                  "hint_reduce")
          ELSE IF AnyZero(r.grid)
          THEN hint_solve_goes_on([grid |-> r.grid, stack |-> stack,
                                   steps |-> Append(r.steps, Step("backtracking", 0, 0, 0))],
                                  "hint_call")
          ELSE /\ hint_solve_saves(r.grid)
               /\ hint_return("solve", first_difference(hint_grid, r.grid, used_hints),
                              hint_grid, r.grid)
    /\ UNCHANGED <<given, session, call_grid, result, previous, gameVars, restVars, query>>

\* sudoku_solver.py get_hint: one step of _solve_backtracking and, when the
\* root call returns, the rest of solve and of get_hint.
sudoku_solver_get_hint_backtracking ==
    /\ session = "sudoku_solver"
    /\ pc \in {"hint_call", "hint_ret"}
    /\ LET r == search_step("sudoku_solver", IF pc = "hint_call" THEN "call" ELSE "ret",
                            grid, stack, steps)
       IN CASE r.mode = "true" ->
                 /\ hint_solve_saves(r.grid)
                 /\ hint_return("solve", first_difference(hint_grid, r.grid, used_hints),
                                hint_grid, r.grid)
            [] r.mode = "false" ->
                 /\ hint_return("none", NoFind, hint_grid, restore(r.grid, call_grid))
                 /\ UNCHANGED <<solutions_data, solutions_file, saved_file>>
            [] OTHER ->
                 hint_solve_goes_on(r, IF r.mode = "call" THEN "hint_call" ELSE "hint_ret")
    /\ UNCHANGED <<given, session, call_grid, result, previous, gameVars, restVars, query>>

InitHint ==
    /\ given \in {{g} : g \in HintInputs}
    /\ InitSolver
    /\ InitGame
    /\ InitCalls
    /\ InitMore

NextHint ==
    \/ SudokuSolver("solver")
    \/ SudokuSolver("sudoku_solver")
    \/ solver_solve
    \/ solver_solve_step_by_step
    \/ sudoku_solver_solve
    \/ sudoku_solver_reduce
    \/ sudoku_solver_solve_backtracking
    \/ solver_get_hint
    \/ solver_get_hint_step_by_step
    \/ sudoku_solver_get_hint
    \/ sudoku_solver_get_hint_reduce
    \/ sudoku_solver_get_hint_backtracking

\* Sessions of get_hint and solve calls on the bounded input grids.
SpecHint == InitHint /\ [][NextHint]_vars

\* ------------------------------------------------------------------------
\* Stored puzzles and saved games of a session
\* ------------------------------------------------------------------------
MaxSaves == 1
MaxStoreCalls == 2
SavePool == <<"slot1", "slot2">>
SaveNames == {SavePool[k] : k \in 1..MaxSaves}

\* self.solutions_data["saved_games"][player_name][save_name] = save_state
put_save(saves, name, state) ==
    [n \in DOMAIN saves \cup {name} |-> IF n = name THEN state ELSE saves[n]]

\* What a call returned, with the fields before it and the fields g, o, u
\* after it; calls counts the calls made on the stored data.
Loaded(op, name, returned, saves, g, o, u) ==
    [op |-> op, name |-> name, returned |-> returned, calls |-> loaded.calls + 1,
     grid_before |-> grid, original_before |-> original_grid, used_before |-> used_hints,
     grid_after |-> g, original_after |-> o, used_after |-> u,
     saves_before |-> saves]

\* save_puzzle_state() called on the session (as the GUI does): the working
\* grid, whatever it holds, is stored under the key of original_grid and the
\* file is written.
SudokuSolver_save_puzzle_state ==
    /\ session # "none"
    /\ pc = "idle"
    /\ loaded.calls < MaxStoreCalls
    /\ loaded' = [loaded EXCEPT !.calls = @ + 1]
    /\ solutions_data' = save_puzzle_state(solutions_data, original_grid, grid)
    /\ solutions_file' = solutions_data'
    /\ saved_file' = json_dump(saved_games)
    /\ UNCHANGED <<given, session, grid, original_grid, used_hints, pc, stack, steps, call_grid,
                   result, previous, gameVars, callVars, saved_games, peer, response, move>>

\* save_game_state(player_name, save_name): the three fields are stored under
\* the name and the file is written.
SudokuSolver_save_game_state ==
    /\ session # "none"
    /\ pc = "idle"
    /\ loaded.calls < MaxStoreCalls
    /\ \E name \in SaveNames :
          /\ saved_games' = put_save(saved_games, name,
                                     save_state(grid, original_grid, used_hints))
          /\ loaded' = Loaded("save_game_state", name, TRUE, saved_games',
                              grid, original_grid, used_hints)
    /\ solutions_file' = solutions_data
    /\ saved_file' = json_dump(saved_games')
    /\ UNCHANGED <<given, session, grid, original_grid, used_hints, solutions_data, pc, stack,
                   steps, call_grid, result, previous, gameVars, callVars, peer, response, move>>

\* load_game_state(player_name, save_name): False for a name that is not
\* stored; else grid, original_grid and used_hints are assigned in this
\* order, and an exception of the third assignment is caught after the first
\* two were made.
SudokuSolver_load_game_state ==
    /\ session # "none"
    /\ pc = "idle"
    /\ loaded.calls < MaxStoreCalls
    /\ \E name \in SaveNames :
          IF name \in DOMAIN saved_games
          THEN LET state == saved_games[name]
               IN /\ grid' = np_array(state.grid)
                  /\ original_grid' = np_array(state.original_grid)
                  /\ used_hints' = IF set_raises(state.used_hints) THEN used_hints
                                   ELSE set_used_hints(state.used_hints)
                  /\ loaded' = Loaded("load_game_state", name,
                                      ~set_raises(state.used_hints), saved_games,
                                      grid', original_grid', used_hints')
          ELSE /\ UNCHANGED <<grid, original_grid, used_hints>>
               /\ loaded' = Loaded("load_game_state", name, FALSE, saved_games,
                                   grid, original_grid, used_hints)
    /\ UNCHANGED <<given, session, solutions_data, solutions_file, saved_games, saved_file, pc,
                   stack, steps, call_grid, result, previous, gameVars, callVars, peer, response,
                   move>>

MaxStoreHoles == 1
StoreInputs == {Blank(ValidSolution, {HolePool[k] : k \in 1..n}) : n \in 0..MaxStoreHoles}

InitStore ==
    /\ given \in {{g} : g \in StoreInputs}
    /\ InitSolver
    /\ InitGame
    /\ InitCalls
    /\ InitMore

NextStore ==
    \/ SudokuSolver("solver")
    \/ SudokuSolver("sudoku_solver")
    \/ solver_solve
    \/ solver_solve_step_by_step
    \/ sudoku_solver_solve
    \/ sudoku_solver_reduce
    \/ solver_get_hint
    \/ solver_get_hint_step_by_step
    \/ sudoku_solver_get_hint
    \/ sudoku_solver_get_hint_reduce
    \/ SudokuSolver_save_puzzle_state
    \/ SudokuSolver_save_game_state
    \/ SudokuSolver_load_game_state

\* Sessions that solve, ask for hints, store puzzles and save and load games.
\* On the grids of StoreInputs the reducer of sudoku_solver.py leaves no cell
\* empty, so its search is never entered.
SpecStore == InitStore /\ [][NextStore]_vars

\* ------------------------------------------------------------------------
\* Two sessions of sudoku_lib/solver.py in one process
\* ------------------------------------------------------------------------
MaxPeerCalls == 2
MaxSessionHoles == 1
SessionInputs == {Blank(ValidSolution, {HolePool[k] : k \in 1..n}) : n \in 0..MaxSessionHoles}

\* DEFAULT_STRUCTURE["puzzles"] and DEFAULT_STRUCTURE["saved_games"]
ClassPuzzles == IF peer.b_aliased THEN solutions_data ELSE peer.class_puzzles
ClassSaved == IF peer.b_aliased THEN saved_games ELSE peer.class_saved

\* self.solutions_data of the second session
PeerPuzzles == IF peer.aliased THEN ClassPuzzles ELSE peer.solutions_data
PeerSaved == IF peer.aliased THEN ClassSaved ELSE peer.saved_games

\* The first session, constructed once with the default file.
\* load_solutions_data: an existing file is read; a missing one is created
\* from DEFAULT_STRUCTURE.copy(), whose dicts are those of the class.
session_SudokuSolver ==
    /\ session = "none"
    /\ pc = "idle"
    /\ \E g \in given :
          /\ grid' = g
          /\ original_grid' = g
    /\ session' = "solver"
    /\ used_hints' = {}
    /\ hinted' = {}
    /\ IF peer.default_exists
       THEN /\ solutions_data' = solutions_file
            /\ saved_games' = saved_file
            /\ UNCHANGED <<solutions_file, saved_file, peer>>
       ELSE /\ solutions_data' = peer.class_puzzles
            /\ saved_games' = peer.class_saved
            /\ solutions_file' = peer.class_puzzles
            /\ saved_file' = json_dump(peer.class_saved)
            /\ peer' = [peer EXCEPT !.b_aliased = TRUE, !.default_exists = TRUE]
    /\ UNCHANGED <<given, pc, stack, steps, call_grid, result, previous, gameVars, query, hint,
                   hint_grid, loaded, response, move>>

\* The second session, constructed with the default file or with a file of
\* its own, which does not exist yet.
peer_SudokuSolver ==
    /\ peer.session = "none"
    /\ \E g \in given, path \in {"default", "other"} :
          LET fresh == [peer EXCEPT !.session = "solver", !.grid = g, !.original_grid = g,
                                    !.used_hints = {}, !.path = path]
          IN IF path = "default" /\ peer.default_exists
             THEN /\ peer' = [fresh EXCEPT !.solutions_data = solutions_file,
                                           !.saved_games = saved_file, !.aliased = FALSE]
                  /\ UNCHANGED <<solutions_file, saved_file>>
             ELSE IF path = "default"
             THEN /\ peer' = [fresh EXCEPT !.aliased = TRUE, !.default_exists = TRUE]
                  /\ solutions_file' = ClassPuzzles
                  /\ saved_file' = json_dump(ClassSaved)
             ELSE /\ peer' = [fresh EXCEPT !.aliased = TRUE]
                  /\ UNCHANGED <<solutions_file, saved_file>>
    /\ UNCHANGED <<given, solverVars, gameVars, callVars, saved_games, loaded, response, move>>

\* The second session's data become puzzles and saved, its other fields
\* those of p; write tells that save_solutions_data() is called.
peer_update(p, puzzles, saved, write) ==
    /\ IF peer.aliased /\ peer.b_aliased
       THEN /\ solutions_data' = puzzles
            /\ saved_games' = saved
            /\ peer' = p
       ELSE /\ peer' = IF peer.aliased
                       THEN [p EXCEPT !.class_puzzles = puzzles, !.class_saved = saved]
                       ELSE [p EXCEPT !.solutions_data = puzzles, !.saved_games = saved]
            /\ UNCHANGED <<solutions_data, saved_games>>
    /\ IF write /\ peer.path = "default"
       THEN /\ solutions_file' = puzzles
            /\ saved_file' = json_dump(saved)
       ELSE UNCHANGED <<solutions_file, saved_file>>
    /\ UNCHANGED <<given, session, grid, original_grid, used_hints, pc, stack, steps, call_grid,
                   result, previous, gameVars, callVars, loaded, response, move>>

\* solve() of sudoku_lib/solver.py from grid g with the data puzzles, followed
\* to its end.
solver_solve_whole(g, original, puzzles) ==
    LET grid_key == grid_to_key(original)
    IN IF grid_key \in DOMAIN puzzles
       THEN [success |-> TRUE, grid |-> np_array(puzzles[grid_key][1]),
             steps |-> <<Step("cached", 0, 0, 0)>>, puzzles |-> puzzles, saved |-> FALSE,
             done |-> TRUE]
       ELSE CHOOSE x \in
                {[success |-> r.success, grid |-> r.grid, steps |-> r.steps,
                  puzzles |-> IF r.success THEN save_puzzle_state(puzzles, original, r.grid)
                              ELSE puzzles,
                  saved |-> r.success, done |-> r.done] : r \in {solver_body(g)}} :
                TRUE

PeerCalled == [peer EXCEPT !.calls = @ + 1]

\* solve() on the second session
peer_solve ==
    /\ peer.session = "solver"
    /\ peer.calls < MaxPeerCalls
    /\ \E r \in {solver_solve_whole(peer.grid, peer.original_grid, PeerPuzzles)} :
          /\ r.done
          /\ peer_update([PeerCalled EXCEPT !.grid = r.grid], r.puzzles, PeerSaved, r.saved)

\* get_hint() on the second session: solve, put the grid back, and enter the
\* first cell the solve filled in the ledger.
peer_get_hint ==
    /\ peer.session = "solver"
    /\ peer.calls < MaxPeerCalls
    /\ \E r \in {solver_solve_whole(peer.grid, peer.original_grid, PeerPuzzles)} :
       \E f \in {first_difference(peer.grid, r.grid, {})} :
          /\ r.done
          /\ peer_update([PeerCalled EXCEPT
                             !.grid = IF r.success THEN peer.grid ELSE r.grid,
                             !.used_hints = IF r.success /\ f.found
                                            THEN @ \cup {<<f.row, f.col>>} ELSE @],
                         r.puzzles, PeerSaved, r.saved)

\* save_puzzle_state() on the second session
peer_save_puzzle_state ==
    /\ peer.session = "solver"
    /\ peer.calls < MaxPeerCalls
    /\ peer_update(PeerCalled, save_puzzle_state(PeerPuzzles, peer.original_grid, peer.grid),
                   PeerSaved, TRUE)

\* save_game_state(player_name, save_name) on the second session
peer_save_game_state ==
    /\ peer.session = "solver"
    /\ peer.calls < MaxPeerCalls
    /\ \E name \in SaveNames :
          peer_update(PeerCalled, PeerPuzzles,
                      put_save(PeerSaved, name,
                               save_state(peer.grid, peer.original_grid, peer.used_hints)),
                      TRUE)

InitSessions ==
    /\ given \in {{g} : g \in SessionInputs}
    /\ InitSolver
    /\ InitGame
    /\ InitCalls
    /\ InitMore

NextSessions ==
    \/ session_SudokuSolver
    \/ solver_solve
    \/ solver_solve_step_by_step
    \/ peer_SudokuSolver
    \/ peer_solve
    \/ peer_get_hint
    \/ peer_save_puzzle_state
    \/ peer_save_game_state

\* Two sessions in one process, their calls interleaved.
SpecSessions == InitSessions /\ [][NextSessions]_vars

\* ------------------------------------------------------------------------
\* sudoku_lib/api.py: the request handlers
\* ------------------------------------------------------------------------
\* The grids of the requests: few holes, at most one overwritten cell, and
\* grids in which one digit is replaced throughout by a value outside 1..9.
MaxRequests == 2
MaxApiHoles == 2
MaxApiPokes == 2
ApiInputs ==
    {Relabel(Poke(Blank(ValidSolution, h), p), q) :
        h \in SUBSET {HolePool[k] : k \in 1..MaxApiHoles},
        p \in {<<>>} \cup {PokePool[k] : k \in 1..MaxApiPokes},
        q \in Relabels}

\* ["easy", "medium", "hard"] of get_puzzle
api_difficulties == {L_easy, L_medium, L_hard}

\* A handler runs from its request to its answer with no other handler in
\* between (no handler awaits anything).
ApiIdle ==
    /\ gpc = "idle"
    /\ pc = "idle"
    /\ response.op # "get_puzzle_running"
    /\ response.calls < MaxRequests

\* return {...}: the answer of a handler that raised nothing
Answered(op, g) ==
    [NoResponse EXCEPT !.op = op, !.calls = response.calls + 1, !.status_code = 200,
                       !.grid = g]

\* raise HTTPException(status_code=status) inside the try of a handler:
\* `except Exception` catches it and raises HTTPException(status_code=500).
RaisedInTry(op, g, status) ==
    [NoResponse EXCEPT !.op = op, !.calls = response.calls + 1, !.status_code = 500,
                       !.raised = status, !.grid = g]

\* raise HTTPException(status_code=status) outside any try
Raised(op, g, status) ==
    [NoResponse EXCEPT !.op = op, !.calls = response.calls + 1, !.status_code = status,
                       !.raised = status, !.grid = g]

\* What the solver of a handler leaves in sudoku_solutions.json.
api_saves(r) ==
    IF r.saved
    THEN /\ solutions_file' = r.puzzles
         /\ saved_file' = json_dump(saved_file)
    ELSE UNCHANGED <<solutions_file, saved_file>>

\* POST /solve
api_solve_puzzle ==
    /\ ApiIdle
    /\ \E g \in ApiInputs :
          \E r \in {solver_solve_whole(g, g, solutions_file)} :
             /\ r.done
             /\ response' = IF r.success
                             THEN [Answered("solve", g) EXCEPT !.success = TRUE,
                                                               !.is_valid = TRUE,
                                                               !.puzzle = r.grid]
                             ELSE RaisedInTry("solve", g, 400)
             /\ api_saves(r)
    /\ UNCHANGED <<given, session, grid, original_grid, used_hints, solutions_data, pc, stack,
                   steps, call_grid, result, previous, gameVars, callVars, saved_games, loaded,
                   peer, move>>

\* POST /hint
api_get_hint ==
    /\ ApiIdle
    /\ \E g \in ApiInputs :
          \E r \in {solver_solve_whole(g, g, solutions_file)} :
          \E f \in {IF r.success THEN first_difference(g, r.grid, {}) ELSE NoFind} :
             /\ r.done
             /\ response' = IF f.found
                             THEN [Answered("hint", g) EXCEPT !.success = TRUE, !.hint = f]
                             ELSE RaisedInTry("hint", g, 400)
             /\ api_saves(r)
    /\ UNCHANGED <<given, session, grid, original_grid, used_hints, solutions_data, pc, stack,
                   steps, call_grid, result, previous, gameVars, callVars, saved_games, loaded,
                   peer, move>>

\* POST /validate
api_validate_solution_handler ==
    /\ ApiIdle
    /\ \E g \in ApiInputs :
          response' = [Answered("validate", g) EXCEPT
                          !.is_valid = api_validate_solution(g).is_valid]
    /\ UNCHANGED <<given, solverVars, gameVars, callVars, saved_file, saved_games, loaded, peer,
                   move>>

\* GET /puzzle/{difficulty}, up to the call of _solve_grid inside new_game:
\* an unlisted difficulty is answered at once, before SudokuGame().
api_get_puzzle ==
    /\ ApiIdle
    /\ \E label \in Labels :
          IF label \notin api_difficulties
          THEN /\ response' = [Raised("get_puzzle", EmptyGrid, 400) EXCEPT
                                  !.difficulty = label]
               /\ UNCHANGED gameVars
          ELSE /\ response' = [NoResponse EXCEPT !.op = "get_puzzle_running",
                                                 !.calls = response.calls,
                                                 !.difficulty = label]
               /\ \E fill \in Fills : ggrid' = fill_diagonal(fill)
               /\ difficulty' = label
               /\ game' = "game"
               /\ gstack' = <<>>
               /\ gpc' = "call"
               /\ UNCHANGED <<generated, cells, remaining, shuffle, current_puzzle,
                              game_result>>
    /\ UNCHANGED <<given, solverVars, callVars, saved_file, saved_games, loaded, peer, move>>

\* GET /puzzle/{difficulty}: one step of _solve_grid inside new_game and,
\* when the root call returns, the masking and the answer with the puzzle.
api_get_puzzle_new_game ==
    /\ response.op = "get_puzzle_running"
    /\ game = "game"
    /\ gpc \in {"call", "ret"}
    /\ LET r == search_step("game", gpc, ggrid, gstack, <<>>)
       IN IF r.mode \in {"true", "false"}
          THEN \E sh \in Shuffles :
                  LET puzzle == mask(r.grid, random_shuffle(positions, sh),
                                     cells_to_remove("game", difficulty))
                  IN /\ shuffle' = sh
                     /\ ggrid' = r.grid
                     /\ generated' = r.grid
                     /\ gstack' = <<>>
                     /\ current_puzzle' = puzzle
                     /\ game_result' = GameReturned(puzzle)
                     /\ gpc' = "idle"
                     /\ response' = [Answered("get_puzzle", EmptyGrid) EXCEPT
                                        !.puzzle = puzzle, !.difficulty = difficulty]
          ELSE /\ ggrid' = r.grid
               /\ gstack' = r.stack
               /\ gpc' = r.mode
               /\ UNCHANGED <<generated, shuffle, current_puzzle, game_result, response>>
    /\ UNCHANGED <<given, solverVars, callVars, saved_file, saved_games, loaded, peer, move,
                   game, difficulty, cells, remaining>>

\* No request has been made; the client holds no grid of the program.
InitApi ==
    /\ given = {}
    /\ InitSolver
    /\ InitGame
    /\ InitCalls
    /\ InitMore

NextApi ==
    \/ api_get_puzzle
    \/ api_get_puzzle_new_game
    \/ api_solve_puzzle
    \/ api_get_hint
    \/ api_validate_solution_handler

\* Requests to the API, one after the other.
SpecApi == InitApi /\ [][NextApi]_vars

\* ------------------------------------------------------------------------
\* sudoku.py: a game played with make_move
\* ------------------------------------------------------------------------
\* The values a player enters besides the digit of the kept solution: the
\* value that clears a cell, a value outside 1..9 and a digit.
MaxMoveNums == 3
MoveNumPool == <<0, 10, 5, 11>>
\* The number of accepted entries that differ from the kept solution.
MaxOffMoves == 1

\* sudoku.py SudokuGame.new_game() with the default difficulty='medium', up
\* to the call of _solve_grid in generate_puzzle.
sudoku_new_game_default ==
    /\ gpc = "idle"
    /\ pc = "idle"
    /\ given = {}
    /\ difficulty' = L_medium
    /\ \E fill \in Fills : ggrid' = fill_diagonal(fill)
    /\ game' = "sudoku"
    /\ gstack' = <<>>
    /\ gpc' = "call"
    /\ UNCHANGED <<given, solverVars, callVars, moreVars, generated, cells, remaining, shuffle,
                   current_puzzle, game_result>>

\* The cells a player moves on: the first empty cell and the first cell
\* that is not empty.
MoveCells(g) ==
    {c \in Cells : \/ /\ g[c[1]][c[2]] = 0
                      /\ \A k \in 0..(Rank(c) - 1) : g[CellOf(k)[1]][CellOf(k)[2]] # 0
                   \/ /\ g[c[1]][c[2]] # 0
                      /\ \A k \in 0..(Rank(c) - 1) : g[CellOf(k)[1]][CellOf(k)[2]] = 0}

\* self.solution is the grid the second _solve_grid of new_game left.
OffMoves(g) == {c \in Cells : g[c[1]][c[2]] # 0 /\ g[c[1]][c[2]] # ggrid[c[1]][c[2]]}

\* sudoku.py SudokuGame.make_move: what it leaves in current_puzzle
make_move_grid(g, row, col, num) ==
    IF g[row][col] # 0 THEN g
    ELSE IF num = 0 THEN SetCell(g, row, col, 0)
    ELSE IF _is_valid(g, num, <<row, col>>) THEN SetCell(g, row, col, num)
    ELSE g

\* sudoku.py SudokuGame.make_move: what it returns
make_move_returns(g, row, col, num) ==
    IF g[row][col] # 0 THEN FALSE
    ELSE IF num = 0 THEN TRUE
    ELSE _is_valid(g, num, <<row, col>>)

\* sudoku.py SudokuGame.make_move(row, col, num)
sudoku_make_move ==
    /\ game = "sudoku"
    /\ gpc = "idle"
    /\ game_result.op = "new_game"
    /\ \E c \in MoveCells(current_puzzle) :
       \E num \in {MoveNumPool[k] : k \in 1..MaxMoveNums} \cup {ggrid[c[1]][c[2]]} :
          /\ current_puzzle' = make_move_grid(current_puzzle, c[1], c[2], num)
          /\ Cardinality(OffMoves(current_puzzle')) <= MaxOffMoves
          /\ move' = [op |-> "make_move", row |-> c[1], col |-> c[2], num |-> num,
                      returned |-> make_move_returns(current_puzzle, c[1], c[2], num),
                      before |-> current_puzzle]
    /\ UNCHANGED <<given, solverVars, callVars, saved_file, saved_games, loaded, peer,
                   response, game, gpc, ggrid, generated, gstack, difficulty, cells, remaining,
                   shuffle, game_result>>

\* sudoku.py SudokuGame.is_complete
is_complete(g) == _find_empty(g) = NoCell

NextMoves ==
    \/ sudoku_new_game_default
    \/ sudoku_solve_grid
    \/ sudoku_remove_numbers
    \/ sudoku_solve_solution
    \/ sudoku_make_move

\* A game of sudoku.py: new_game(), then moves.
SpecMoves == InitGenerated /\ [][NextMoves]_vars

\* ------------------------------------------------------------------------
\* Reference notions the properties are stated with
\* ------------------------------------------------------------------------
\* Every row, column and box holds each of 1..9.
IsSolved(g) ==
    /\ \A i \in Idx : RowVals(g, i) = Digits
    /\ \A j \in Idx : ColVals(g, j) = Digits
    /\ \A c \in Cells : BoxVals(g, c[1], c[2]) = Digits

\* num is the value of no cell that shares a row, column or box with cell.
Fits(g, cell, num) ==
    /\ num \notin RowVals(g, cell[1])
    /\ num \notin ColVals(g, cell[2])
    /\ num \notin BoxVals(g, cell[1], cell[2])

\* The solved grids that extend g on the cells of todo.
RECURSIVE Extensions(_, _)
Extensions(g, todo) ==
    IF todo = <<>>
    THEN IF IsSolved(g) THEN {g} ELSE {}
    ELSE UNION {Extensions(SetCell(g, Head(todo)[1], Head(todo)[2], n), Tail(todo)) :
                   n \in {m \in Digits : Fits(g, Head(todo), m)}}

\* The valid completions of g: the solved grids that agree with its givens.
Completions(g) == Extensions(g, SortCells(EmptyCells(g)))

\* a comes before b reading the cells in row-major order.
LexLess(a, b) ==
    \E k \in 0..(N * N - 1) :
        /\ a[CellOf(k)[1]][CellOf(k)[2]] < b[CellOf(k)[1]][CellOf(k)[2]]
        /\ \A j \in 0..(k - 1) : a[CellOf(j)[1]][CellOf(j)[2]] = b[CellOf(j)[1]][CellOf(j)[2]]

NonZeroCount(g) == Cardinality({c \in Cells : g[c[1]][c[2]] # 0})

HasStep(st, kinds) == \E k \in 1..Len(st) : st[k][1] \in kinds

Solved == result.op = "solve"

\* ------------------------------------------------------------------------
\* Properties of solve (under Spec)
\* ------------------------------------------------------------------------
\* C1: every solve that returns success=true leaves a working grid in which
\* every row, column and box is a permutation of 1..9, for every input grid
\* and both solvers.  The code returns True for a grid with no empty cell
\* whatever its givens are.
C1_SuccessIsSolved == (Solved /\ result.success) => IsSolved(result.grid)

\* C2: solve returns success=false whenever the input grid has no valid
\* completion, duplicate givens included.
C2_NoCompletionFails ==
    (Solved /\ Completions(result.original) = {}) => ~result.success

\* C3: after a successful solve every cell that was non-zero in the grid
\* given to the session holds the same value; only empty cells are written.
C3_GivensKept ==
    (Solved /\ result.success) =>
        \A c \in Cells : result.original[c[1]][c[2]] # 0 =>
                            result.grid[c[1]][c[2]] = result.original[c[1]][c[2]]

\* C3 witness: a successful search that filled empty cells and backtracked.
C3_Witness ==
    /\ Solved /\ result.success /\ ~result.cached
    /\ AnyZero(result.original)
    /\ HasStep(result.steps, {"backtrack"})

\* C4: when solve returns success=false the working grid equals, cell for
\* cell, the grid held immediately before the call.
C4_FailureRestores == (Solved /\ ~result.success) => result.grid = result.before

\* C4 witness: a failed hybrid solve whose reducer had filled a cell before
\* the search gave up.
C4_Witness ==
    /\ Solved /\ ~result.success
    /\ result.class = "sudoku_solver"
    /\ AnyZero(result.before)
    /\ HasStep(result.steps, {"naked", "hidden"})
    /\ HasStep(result.steps, {"backtracking"})

\* C5: for an input with at least one valid completion the grid of a
\* successful solve is the lexicographically first completion, reading the
\* cells in row-major order, for both solvers.
C5_LexFirst ==
    (Solved /\ result.success /\ Completions(result.original) # {}) =>
        /\ result.grid \in Completions(result.original)
        /\ \A d \in Completions(result.original) : d = result.grid \/ LexLess(result.grid, d)

\* C5 witness: a successful solve of an input with several completions.
C5_Witness ==
    /\ Solved /\ result.success /\ ~result.cached
    /\ Cardinality(Completions(result.original)) > 1

\* C6: repeated solve calls on the same input grid return identical solved
\* grids and traces of identical length.  A repeated call is answered from
\* the store with a trace of one entry.
C6_RepeatedSolveSame ==
    (Solved /\ previous.op = "solve" /\ previous.class = result.class
        /\ previous.original = result.original) =>
        /\ result.success = previous.success
        /\ result.grid = previous.grid
        /\ Len(result.steps) = Len(previous.steps)

\* ------------------------------------------------------------------------
\* Properties of the generators (under SpecGame)
\* ------------------------------------------------------------------------
Generated == game_result.op = "new_game"

Recognized == {L_easy, L_medium, L_hard}

\* The key the generator looks the label up with.
LookupKey(class, label) == IF class = "game" THEN str_lower(label) ELSE label

\* C7: for every difficulty label and every outcome of the random choices a
\* solver session built on the puzzle new_game returned gets success=true
\* from solve.
C7_GeneratedSolvable ==
    (Generated /\ Solved /\ result.original = game_result.puzzle) => result.success

\* C7 witness: a search (not the store) solved a returned puzzle.
C7_Witness ==
    /\ Generated /\ Solved /\ result.original = game_result.puzzle
    /\ result.success /\ ~result.cached
    /\ HasStep(result.steps, {"try"})

\* C8: the returned puzzle has exactly 51 non-zero cells for easy, 41 for
\* medium and 31 for hard, and every unmasked cell keeps the non-zero value
\* of the full solution.
C8_FilledCells ==
    Generated =>
        /\ game_result.difficulty = L_easy => NonZeroCount(game_result.puzzle) = 51
        /\ game_result.difficulty = L_medium => NonZeroCount(game_result.puzzle) = 41
        /\ game_result.difficulty = L_hard => NonZeroCount(game_result.puzzle) = 31
        /\ \A c \in Cells :
              /\ generated[c[1]][c[2]] # 0
              /\ game_result.puzzle[c[1]][c[2]] \in {0, generated[c[1]][c[2]]}

\* C8 witness: a hard puzzle with 50 cells masked.
C8_Witness ==
    /\ Generated
    /\ game_result.difficulty = L_hard
    /\ NonZeroCount(game_result.puzzle) = 31
    /\ IsSolved(generated)

C10_InvalidLabelRaises ==
    (Generated /\ game_result.class = "game" /\ game_result.difficulty = L_invalid) =>
        /\ game_result.raised
        /\ given = {}

\* ------------------------------------------------------------------------
\* Properties of the read-only calls (under SpecCheck)
\* ------------------------------------------------------------------------
\* v is the value of a cell other than (row, col) in its row, column or box.
OccursElsewhere(g, row, col, v) ==
    \E d \in (RowCells(row) \cup ColCells(col) \cup BoxCells(row, col)) \ {<<row, col>>} :
        g[d[1]][d[2]] = v

HasError(errors, kind) == \E k \in 1..Len(errors) : errors[k].kind = kind

Validated == query.op \in {"validate_solution", "verify_solution"}

\* C11: the legality check is false exactly when v occurs in a cell other
\* than (r, c) of the row, the column or the box; v held by (r, c) itself
\* does not make it false; no cell changes.  Both _is_safe also count the
\* cell itself.
C11_LegalIffNotElsewhere ==
    query.op \in {"_is_safe", "_is_valid"} =>
        /\ query.value = ~OccursElsewhere(query.grid, query.row, query.col, query.num)
        /\ query.class # "game" => grid = query.grid

\* C12: candidates(row, col) is empty for a non-empty cell; for an empty
\* cell it is exactly the digits of 1..9 that occur in none of the row, the
\* column and the box of the cell; no cell changes.
C12_Candidates ==
    query.op = "get_possible_values" =>
        /\ query.grid[query.row][query.col] # 0 => query.value = {}
        /\ query.grid[query.row][query.col] = 0 =>
              query.value = {v \in 1..9 :
                                ~OccursElsewhere(query.grid, query.row, query.col, v)}
        /\ grid = query.grid

\* C12 witness: candidates of an empty cell that has some, in a grid where
\* a digit missing from the row stands in the column.
C12_Witness ==
    /\ query.op = "get_possible_values"
    /\ query.grid[query.row][query.col] = 0
    /\ query.value # {}
    /\ \E v \in 1..9 : /\ v \notin RowVals(query.grid, query.row)
                       /\ v \in ColVals(query.grid, query.col)

\* C13: for a grid without 0, validate reports is_valid=true exactly when
\* every row, column and box holds each of 1..9 once; a value outside 1..9
\* is never reported valid.  The validators count distinct values only.
C13_ValidIffSolved ==
    (query.op = "validate_solution" /\ ~AnyZero(query.grid)) =>
        (query.value.is_valid <=> IsSolved(query.grid))

\* C14: for a grid with a 0, validate reports is_valid=false and an entry
\* saying the grid is incomplete, also when nothing is duplicated.
\* SudokuGame.verify_solution looks at the non-zero values only.
C14_IncompleteReported ==
    (Validated /\ AnyZero(query.grid)) =>
        /\ ~query.value.is_valid
        /\ HasError(query.value.errors, "incomplete")

\* C15: when a non-zero value occurs twice in row i (0-based), validate
\* returns is_valid=false and an entry that names row i+1, with or without
\* empty cells in the grid.  The API answers a grid with a 0 before it
\* looks at the rows.
C15_DuplicateRowNamed ==
    Validated =>
        \A i \in Idx :
            (\E a \in Idx, b \in Idx :
                a # b /\ query.grid[i][a] # 0 /\ query.grid[i][a] = query.grid[i][b]) =>
                /\ ~query.value.is_valid
                /\ \E k \in 1..Len(query.value.errors) :
                      /\ query.value.errors[k].unit = "row"
                      /\ query.value.errors[k].index = i + 1

\* C20: check_move accepts exactly when the cell is empty or already holds
\* the value, and the value occurs in no other cell of the row, column and
\* box; a cell holding another non-zero value is never accepted; no cell
\* changes.  The code never looks at what the cell holds beyond equality.
C20_CheckMove ==
    query.op = "check_move" =>
        /\ query.value.accepted =
              (/\ query.grid[query.row][query.col] \in {0, query.num}
               /\ ~OccursElsewhere(query.grid, query.row, query.col, query.num))
        /\ grid = query.grid

HintCalled == hint.op = "get_hint"

\* C17: within one session no two returned hints name the same cell: every
\* returned cell is added to the ledger and is never returned again.
\* get_hint of sudoku_lib/solver.py writes the ledger and never reads it.
C17_HintsDistinct ==
    (HintCalled /\ hint.returned) =>
        /\ <<hint.row, hint.col>> \notin hint.hinted_before
        /\ <<hint.row, hint.col>> \in hint.used_after

\* C18 as stated: get_hint returns no hint only when the working grid has
\* no empty cell or has no valid completion.
C18_NoHintOnlyWhenStuck ==
    (HintCalled /\ ~hint.returned) =>
        \/ ~AnyZero(hint.grid_before)
        \/ Completions(hint.grid_before) = {}

\* C18: get_hint returns no hint only when the working grid has no empty
\* cell, or has no valid completion, or (sudoku_solver.py) every empty cell
\* is already in the hint ledger; in every other state reached by get_hint
\* and solve calls it returns a hint.
C18_NoHintOnlyWhenStuckOrSpent ==
    (HintCalled /\ ~hint.returned) =>
        \/ ~AnyZero(hint.grid_before)
        \/ Completions(hint.grid_before) = {}
        \/ /\ hint.class = "sudoku_solver"
           /\ EmptyCells(hint.grid_before) \subseteq hint.used_before

\* C18 witness: get_hint of sudoku_solver.py returns None on a grid with an
\* empty cell and a valid completion, every empty cell being in the ledger.
C18_Witness ==
    /\ HintCalled /\ ~hint.returned
    /\ hint.class = "sudoku_solver"
    /\ AnyZero(hint.grid_before)
    /\ Completions(hint.grid_before) # {}
    /\ EmptyCells(hint.grid_before) \subseteq hint.used_before

\* C19: get_hint leaves the working grid and the original grid as they were,
\* whether it returns a naked single, a hidden single, a cell of the
\* fallback solve or nothing.  get_hint of sudoku_solver.py keeps the grid
\* its fallback solve filled in.
C19_HintKeepsGrids ==
    HintCalled =>
        /\ hint.grid_after = hint.grid_before
        /\ hint.original_after = hint.original_before

\* ------------------------------------------------------------------------
\* Properties of the logical reducer and of the trace (under Spec)
\* ------------------------------------------------------------------------
\* The grid after the reducer entries st[k], st[k+1], ... are written on g,
\* one after the other.
RECURSIVE Written(_, _, _)
Written(g, st, k) ==
    IF k > Len(st) \/ st[k][1] \notin {"naked", "hidden"} THEN g
    ELSE Written(SetCell(g, st[k][2], st[k][3], st[k][4]), st, k + 1)

\* Every reducer entry of st names an empty cell of the grid as it is when
\* the entry is written, and a digit no cell of its row, column or box holds.
WritesCandidates(g, st) ==
    \A k \in 1..Len(st) :
        st[k][1] \in {"naked", "hidden"} =>
            LET now == Written(g, SubSeq(st, 1, k - 1), 1)
            IN /\ now[st[k][2]][st[k][3]] = 0
               /\ st[k][4] \in Digits
               /\ Fits(now, <<st[k][2], st[k][3]>>, st[k][4])

\* C24: every value the logical reducer writes (naked or hidden single) is,
\* at the moment it is written, a candidate of its cell computed from the
\* current grid: it repeats no value of the row, column or box, the values
\* placed earlier in the same pass included.  The naked-single pass of the
\* code takes its candidates from a list computed before its first write.
C24_WritesCandidates ==
    pc = "reduce" => WritesCandidates(call_grid, steps)

\* C25: the reducer's loop terminates: a round that reports progress fills at
\* least one empty cell, no round writes 0 and none overwrites a non-empty
\* cell, so the number of empty cells strictly decreases from one progress
\* round to the next.  Every entry of the trace of the reducer is one more
\* filled cell, and a round reports progress exactly when it adds an entry.
C25_ReducerFills ==
    pc = "reduce" =>
        /\ \A c \in Cells : call_grid[c[1]][c[2]] # 0 => grid[c[1]][c[2]] = call_grid[c[1]][c[2]]
        /\ \A k \in 1..Len(steps) : steps[k][4] # 0 /\ call_grid[steps[k][2]][steps[k][3]] = 0
        /\ NonZeroCount(grid) = NonZeroCount(call_grid) + Len(steps)
        /\ LET r == reduce_round(grid, steps)
           IN /\ r.changed <=> Len(r.steps) > Len(steps)
              /\ r.changed => NonZeroCount(r.grid) > NonZeroCount(grid)

\* A round of the reducer has reported progress and the next one does too.
C25_Witness ==
    /\ pc = "reduce"
    /\ Len(steps) > 0
    /\ reduce_round(grid, steps).changed

\* The tries of st[k..] pushed on open and popped by the backtracks; ok
\* tells whether each backtrack named the cell and digit on top.
RECURSIVE Unmatched(_, _, _)
Unmatched(st, k, acc) ==
    IF k > Len(st) THEN acc
    ELSE LET e == <<st[k][2], st[k][3], st[k][4]>>
             n == Len(acc.open)
         IN IF st[k][1] = "try"
            THEN Unmatched(st, k + 1, [acc EXCEPT !.open = Append(@, e)])
            ELSE IF st[k][1] = "backtrack"
            THEN IF n > 0 /\ acc.open[n] = e
                 THEN Unmatched(st, k + 1, [acc EXCEPT !.open = SubSeq(@, 1, n - 1)])
                 ELSE Unmatched(st, k + 1, [acc EXCEPT !.ok = FALSE])
            ELSE Unmatched(st, k + 1, acc)

Discipline(st) == Unmatched(st, 1, [ok |-> TRUE, open |-> <<>>])

Count(st, kind) == Cardinality({k \in 1..Len(st) : st[k][1] = kind})

\* While the search runs the unmatched tries are the frames of the search,
\* in order; when solve has returned, a failed search has matched every
\* try, and a successful one leaves open exactly the cells that were empty
\* when backtracking began, each with the digit the grid holds.
TraceIsStack ==
    /\ pc \in {"call", "ret"} =>
          LET d == Discipline(steps)
          IN /\ d.ok
             /\ d.open = [k \in 1..Len(stack) |->
                             <<stack[k].row, stack[k].col, stack[k].num>>]
             /\ \A k \in 1..Len(stack) : grid[stack[k].row][stack[k].col] = stack[k].num
    /\ (Solved /\ ~result.cached) =>
          LET d == Discipline(result.steps)
              start == Written(result.before, result.steps, 1)
              tries == {d.open[k] : k \in 1..Len(d.open)}
          IN /\ d.ok
             /\ ~result.success => Count(result.steps, "try") = Count(result.steps, "backtrack")
             /\ result.success =>
                   /\ Cardinality(tries) = Len(d.open)
                   /\ tries = {<<c[1], c[2], result.grid[c[1]][c[2]]>> : c \in EmptyCells(start)}

\* A step of the running search only appends to the trace.
TraceGrows ==
    (pc \in {"call", "ret"} /\ pc' \in {"call", "ret"}) =>
        /\ Len(steps') \in {Len(steps), Len(steps) + 1, Len(steps) + 2}
        /\ SubSeq(steps', 1, Len(steps)) = steps

\* C26: during backtracking the trace is append-only and follows a stack
\* discipline: each placement appends one 'try', each undo one 'backtrack'
\* for the cell and digit of the most recent unmatched 'try'; on failure the
\* tries and the backtracks are equally many, on success the unmatched
\* tries are exactly the digits held by the cells backtracking filled.
C26_TraceStack == []TraceIsStack /\ [][TraceGrows]_vars

\* A search has undone a placement and then succeeded.
C26_Witness ==
    /\ Solved /\ ~result.cached /\ result.success
    /\ HasStep(result.steps, {"backtrack"})
    /\ Discipline(result.steps).open # <<>>

\* ------------------------------------------------------------------------
\* Properties of the hints' values (under SpecHint)
\* ------------------------------------------------------------------------
\* C28: for a session whose grid has at least one valid completion, every
\* hint (row, col, value) names with row and col in 0..8 a cell that is empty
\* in the session's grid, and its value is in 1..9 and is the digit solve
\* places in that cell.  The hidden-single scan of sudoku_solver.py leaves
\* the cells of the ledger out when it counts the columns a digit can take.
C28_HintIsSolveDigit ==
    (HintCalled /\ hint.returned /\ Completions(hint.grid_before) # {}) =>
        LET solved == solve_body(hint.class, hint.grid_before)
        IN /\ hint.row \in Idx /\ hint.col \in Idx
           /\ hint.grid_before[hint.row][hint.col] = 0
           /\ hint.value \in Digits
           /\ solved.done /\ solved.success
           /\ hint.value = solved.grid[hint.row][hint.col]

\* ------------------------------------------------------------------------
\* Properties of the stored data (under SpecStore)
\* ------------------------------------------------------------------------
\* C27: the solution cache is transparent: after any sequence of earlier
\* solve, get_hint, save_puzzle_state and load_game_state calls, a solve
\* answered from the cache reports success only with the grid the same solve
\* would compute with an empty cache, a complete grid that agrees with the
\* session's working grid on every non-zero cell.  save_puzzle_state stores
\* the working grid whatever it holds, and solve returns the first stored grid.
C27_CacheTransparent ==
    (Solved /\ result.cached) =>
        LET fresh == solve_body(result.class, result.before)
        IN /\ result.success
           /\ fresh.done /\ fresh.success
           /\ result.grid = fresh.grid
           /\ ~AnyZero(result.grid)
           /\ \A c \in Cells : result.before[c[1]][c[2]] # 0 =>
                                  result.grid[c[1]][c[2]] = result.before[c[1]][c[2]]

\* C30: load_game_state is all-or-nothing: when it returns False (a name that
\* is not stored, or a stored save whose fields fail to convert, such as hint
\* cells stored as lists after a JSON round trip) grid, original_grid and
\* used_hints are as before the call; when it returns True all three are the
\* values the matching save_game_state captured.  The code assigns grid and
\* original_grid before the conversion of the hint cells can fail.
C30_LoadAllOrNothing ==
    loaded.op = "load_game_state" =>
        IF loaded.returned
        THEN /\ loaded.name \in DOMAIN loaded.saves_before
             /\ LET state == loaded.saves_before[loaded.name]
                IN /\ loaded.grid_after = np_array(state.grid)
                   /\ loaded.original_after = np_array(state.original_grid)
                   /\ loaded.used_after = set_used_hints(state.used_hints)
        ELSE /\ loaded.grid_after = loaded.grid_before
             /\ loaded.original_after = loaded.original_before
             /\ loaded.used_after = loaded.used_before

\* ------------------------------------------------------------------------
\* Properties of two sessions (under SpecSessions)
\* ------------------------------------------------------------------------
\* C21: two independently constructed sessions share no mutable state: under
\* any interleaving of solve, get_hint, save_puzzle_state and save_game_state
\* calls on a second session, the grid, trace and success flag the first
\* session's solve returns, and its solutions data, are what they are when
\* the second session never runs.  Alone, the first solve of a session that
\* found no solutions file searches and stores at most the grid it found.
C21_SessionsIsolated ==
    (Solved /\ previous.op = "none") =>
        LET alone == solve_body("solver", result.before)
        IN /\ ~result.cached
           /\ result.success = alone.success
           /\ result.grid = alone.grid
           /\ result.steps = alone.steps
           /\ solutions_data = IF alone.success
                                THEN save_puzzle_state(EmptyStore, result.original, alone.grid)
                                ELSE EmptyStore

\* C23: in the API handlers every rejection raised with status 400 reaches
\* the client as status 400 and never as 500; an unlisted difficulty
\* generates no puzzle.
C23_RejectionsReach400 ==
    /\ response.raised = 400 => response.status_code = 400
    /\ (response.op = "get_puzzle" /\ response.difficulty \notin api_difficulties)
          => (response.status_code = 400 /\ response.puzzle = EmptyGrid)

\* C22: a request whose grid holds a value outside 0..9 is answered by
\* solve, hint and validate with an input error; it never yields
\* success = true or is_valid = true.
C22_MalformedRejected ==
    (/\ response.op \in {"solve", "hint", "validate"}
     /\ \E c \in Cells : response.grid[c[1]][c[2]] \notin 0..N)
       => /\ response.status_code \in 400..499
          /\ ~response.success
          /\ ~response.is_valid

\* C29: from the puzzle of new_game on, after any sequence of make_move
\* calls no non-zero value occurs twice in a row, column or box of
\* current_puzzle, a make_move that returns False changes no cell, a cell
\* that is non-zero is never changed, and whenever is_complete() is true
\* the grid is a valid solved Sudoku.
C29_MovesKeepValid ==
    (game = "sudoku" /\ gpc = "idle" /\ game_result.op = "new_game") =>
        /\ \A k \in 1..Len(Units) :
              \A c, d \in Units[k][3] :
                 (c # d /\ current_puzzle[c[1]][c[2]] # 0)
                    => current_puzzle[c[1]][c[2]] # current_puzzle[d[1]][d[2]]
        /\ (move.op = "make_move" /\ ~move.returned) => current_puzzle = move.before
        /\ move.op = "make_move" =>
              \A c \in Cells : move.before[c[1]][c[2]] # 0
                                 => current_puzzle[c[1]][c[2]] = move.before[c[1]][c[2]]
        /\ \A c \in Cells : game_result.puzzle[c[1]][c[2]] # 0
                              => current_puzzle[c[1]][c[2]] = game_result.puzzle[c[1]][c[2]]
        /\ is_complete(current_puzzle) => IsSolved(current_puzzle)

====
